---- MODULE Spec2Model ----
(***************************************************************************)
(* Model of the Secure Testing Environment extension, component by         *)
(* component:                                                               *)
(*   - the developer-tools detector of the SecurityEnforcer content script *)
(*     (extension/content/security-enforcer.js) with the part of the       *)
(*     background service that receives its violation messages;            *)
(*   - the Logger of the content scripts (unnamed/part_000);               *)
(*   - the APIClient (extension/utils/api-client.js);                      *)
(*   - the Integration API for web applications                            *)
(*     (extension/popup/popup.js);                                         *)
(*   - the monitoring switch and the configuration of the background       *)
(*     service (extension/background/config-manager.js).                   *)
(*                                                                         *)
(* The page: one page (one content-script world) is modelled.  Every       *)
(* callback of the page runs to completion before the next one starts, so  *)
(* each listener, timer tick and promise continuation is one action.       *)
(* window.alert blocks the page until it is dismissed, so the code after   *)
(* an await up to the assignment of window.location.href is one action as  *)
(* well.  The page is followed until the navigation it requests commits.   *)
(*                                                                         *)
(* Of config.restrictions only blockDevTools is modelled; the other flags  *)
(* are off in every configuration the model draws.                         *)
(***************************************************************************)
EXTENDS Integers, Sequences, FiniteSets, Bags, TLC

\* ---------------------------------------------------------------- bounds
MaxDetectors == 1
MaxHandlers == 2
MaxCount == 20

\* ------------------------------------------------------ program constants
Threshold == 10
ConsoleLogWeight == 1
ConsoleLogLimit == 3
ConsoleClearWeight == 5
WindowSizeWeight == 3
GetterWeight == 10
TimingWeight == 15
ViewportWeight == 2
RightClickWeight == 5
CatchWeight == 5

Detectors == 1..MaxDetectors
Handlers == 1..MaxHandlers

\* this.config = null
NoConfig == [null |-> TRUE]
\* An update object without the key restrictions
NoRestrictions == [restrictions |-> FALSE]
\* loadConfiguration: the GET_STATUS request fails
LoadFailed == [failed |-> TRUE]
Configs == [blockDevTools : BOOLEAN]
ExamUrl == "exam"
ViolationUrl == "https://examroom.ai/devtooltrying"

\* The collectors a poll tick runs, in the order the tick runs them.
Collectors == <<"checkWindowSize", "checkViewportChanges", "getter", "performanceCheck">>
CollectorNames == {Collectors[i] : i \in 1..Len(Collectors)}

VARIABLES
    initDone,             \* init() has passed loadConfiguration and registered onMessage
    isActive,             \* SecurityEnforcer.isActive
    config,               \* SecurityEnforcer.config (NoConfig or a configuration)
    nDet,                 \* number of startDeveloperToolsDetection calls so far
    detectionCount,       \* the closure variable detectionCount of each call
    devToolsOpen,         \* the closure variable devToolsOpen of each call
    monitoringInterval,   \* whether the setInterval of each call is still scheduled
    nHandlers,            \* number of handleDeveloperToolsViolation calls so far
    pc,                   \* position of each call: idle, awaitLog, redirected
    alerted,              \* whether the call has shown its alert
    location,             \* window.location.href
    contextValid,         \* chrome.runtime is usable from the page
    logReq,               \* LOG_UNAUTHORIZED_ACTION message of each call
    detReq,               \* DEVELOPER_TOOLS_DETECTED message of each call
    unauthorizedActions,  \* SecureTestingService.unauthorizedActions, as the bag of its entries
    emergencyStopped      \* emergencyStop closed the tabs and opened the violation page

\* History: the number of console.log calls the override of each detector has
\* run for (followed where a specification counts them).
VARIABLE consoleLogCalls

enforcerVars == <<initDone, isActive, config>>
detectorVars == <<nDet, detectionCount, devToolsOpen, monitoringInterval>>
handlerVars == <<nHandlers, pc, alerted, location, logReq, detReq>>
backgroundVars == <<unauthorizedActions, emergencyStopped>>
vars == <<enforcerVars, detectorVars, handlerVars, contextValid, backgroundVars>>

Init ==
    /\ initDone = FALSE
    /\ isActive = FALSE
    /\ config = NoConfig
    /\ nDet = 0
    /\ detectionCount = [d \in Detectors |-> 0]
    /\ devToolsOpen = [d \in Detectors |-> FALSE]
    /\ monitoringInterval = [d \in Detectors |-> FALSE]
    /\ nHandlers = 0
    /\ pc = [h \in Handlers |-> "idle"]
    /\ alerted = [h \in Handlers |-> FALSE]
    /\ location = ExamUrl
    /\ contextValid = TRUE
    /\ logReq = [h \in Handlers |-> "none"]
    /\ detReq = [h \in Handlers |-> "none"]
    /\ unauthorizedActions = EmptyBag
    /\ emergencyStopped = FALSE
    /\ consoleLogCalls = [d \in Detectors |-> 0]

\* ------------------------------------------------------------- collectors

\* The weight a collector adds to detectionCount when it fires.
Weight(c) ==
    CASE c = "checkWindowSize" -> WindowSizeWeight
      [] c = "checkViewportChanges" -> ViewportWeight
      [] c = "getter" -> GetterWeight
      [] c = "performanceCheck" -> TimingWeight

RECURSIVE SumWeights(_)
SumWeights(F) ==
    IF F = {} THEN 0
    ELSE LET c == CHOOSE x \in F : TRUE IN Weight(c) + SumWeights(F \ {c})

\* The collectors that run before the i-th one in a tick.
Before(i) == {Collectors[j] : j \in 1..(i - 1)}

\* Variants of the tick's test: the counter compared with >=, and the flag
\* left out of the test.
ThresholdReachedAtTen(open, count) == open \/ count >= Threshold
ThresholdReachedByCount(open, count) == count > Threshold

\* The test the tick makes after its collectors have run.
ThresholdReached(open, count) == open \/ count > Threshold

\* Variant of the catch clause: the exception is swallowed without a weight.
AfterCatchSwallowed(count) == count

\* What the catch clause of the tick makes of detectionCount.
AfterCatch(count) == count + CatchWeight

\* The console.log override: the counter after the call, and the flag.
AfterConsoleLog(count) == count + ConsoleLogWeight
OpenAfterConsoleLog(open, count) == open \/ count > ConsoleLogLimit

\* Variant of the console.clear override: the counter starts over.
AfterConsoleClearReset(count) == 0

\* The console.clear override.
AfterConsoleClear(count) == count + ConsoleClearWeight

\* The contextmenu listener installed by startDeveloperToolsDetection.
AfterRightClick(count) == count + RightClickWeight

Started == 1..nDet

\* --------------------------------------------- handleDeveloperToolsViolation

\* The synchronous part of n calls of handleDeveloperToolsViolation, one per
\* listener: logBlockedAction sends LOG_UNAUTHORIZED_ACTION and the call waits
\* for the answer.  When chrome.runtime.sendMessage throws, logBlockedAction
\* catches it, the second sendMessage throws as well, and the catch clause of
\* handleDeveloperToolsViolation redirects without an alert.
StartViolations(n) ==
    LET new == (nHandlers + 1)..(nHandlers + n) IN
    /\ nHandlers + n <= MaxHandlers
    /\ nHandlers' = nHandlers + n
    /\ IF contextValid
       THEN /\ pc' = [h \in Handlers |-> IF h \in new THEN "awaitLog" ELSE pc[h]]
            /\ logReq' = [h \in Handlers |-> IF h \in new THEN "inflight" ELSE logReq[h]]
            /\ UNCHANGED location
       ELSE /\ pc' = [h \in Handlers |-> IF h \in new THEN "redirected" ELSE pc[h]]
            /\ location' = IF n > 0 THEN ViolationUrl ELSE location
            /\ UNCHANGED logReq
    /\ UNCHANGED <<alerted, detReq>>

\* Variant of the rest of the call: the catch clause reports the error and
\* does not redirect.
ContinueWithoutCatchRedirect(h) ==
    /\ IF contextValid
       THEN /\ pc' = [pc EXCEPT ![h] = "redirected"]
            /\ location' = ViolationUrl
            /\ detReq' = [detReq EXCEPT ![h] = "inflight"]
            /\ alerted' = [alerted EXCEPT ![h] = TRUE]
       ELSE /\ pc' = [pc EXCEPT ![h] = "failed"]
            /\ UNCHANGED <<location, detReq, alerted>>
    /\ UNCHANGED nHandlers

\* The rest of the call once logBlockedAction has returned: send
\* DEVELOPER_TOOLS_DETECTED, alert, redirect; the catch clause redirects when
\* sendMessage throws.
Continue(h) ==
    /\ pc' = [pc EXCEPT ![h] = "redirected"]
    /\ location' = ViolationUrl
    /\ IF contextValid
       THEN /\ detReq' = [detReq EXCEPT ![h] = "inflight"]
            /\ alerted' = [alerted EXCEPT ![h] = TRUE]
       ELSE UNCHANGED <<detReq, alerted>>
    /\ UNCHANGED nHandlers

\* The promise of the LOG_UNAUTHORIZED_ACTION message resolves: the background
\* has answered.
LogResolve(h) ==
    /\ pc[h] = "awaitLog"
    /\ logReq[h] = "answered"
    /\ Continue(h)
    /\ UNCHANGED <<logReq, enforcerVars, detectorVars, contextValid, backgroundVars>>

\* The promise rejects (no receiver, or the channel closed without an answer);
\* logBlockedAction catches the rejection and returns.
LogReject(h) ==
    /\ pc[h] = "awaitLog"
    /\ logReq[h] \in {"inflight", "dropped"}
    /\ logReq' = [logReq EXCEPT ![h] = IF logReq[h] = "inflight" THEN "lost" ELSE "dropped"]
    /\ Continue(h)
    /\ UNCHANGED <<enforcerVars, detectorVars, contextValid, backgroundVars>>

\* ------------------------------------------------------------- enforcement

StartsDetection(cfg) == cfg # NoConfig /\ cfg.blockDevTools

\* startEnforcement under configuration cfg (after stopEnforcement or not: it
\* changes nothing the detectors read), followed by a console.log when `logs`.  blockDevTools attaches
\* a keydown listener and calls startDeveloperToolsDetection, which starts a
\* new detector with its own counter, flag, contextmenu listener and interval.
\* stopEnforcement clears neither the interval nor these listeners.
Enforce(cfg, logs) ==
    LET starts == StartsDetection(cfg)
        n == IF starts THEN nDet + 1 ELSE nDet
        count == [d \in Detectors |->
                    IF d <= n /\ logs THEN AfterConsoleLog(detectionCount[d])
                    ELSE detectionCount[d]]
    IN
    /\ starts => nDet < MaxDetectors
    /\ \A d \in Detectors : count[d] <= MaxCount
    /\ nDet' = n
    /\ monitoringInterval' =
          [d \in Detectors |-> monitoringInterval[d] \/ (starts /\ d = n)]
    /\ detectionCount' = count
    /\ devToolsOpen' =
          [d \in Detectors |->
              IF d <= n /\ logs
              THEN OpenAfterConsoleLog(devToolsOpen[d], count[d])
              ELSE devToolsOpen[d]]

\* init(): loadConfiguration takes isActive and config from the answer to
\* GET_STATUS (or leaves them when the request fails), the message listener
\* is registered, enforcement starts when active, and init logs its success with
\* console.log.
LoadConfiguration(resp) ==
    /\ ~initDone
    /\ initDone' = TRUE
    /\ isActive' = IF resp = LoadFailed THEN isActive ELSE resp.isActive
    /\ config' = IF resp = LoadFailed THEN config ELSE resp.config
    /\ IF isActive'
       THEN Enforce(config', TRUE)
       ELSE Enforce(NoConfig, TRUE)
    /\ UNCHANGED <<handlerVars, contextValid, backgroundVars>>

\* activate(config)
Activate(cfg) ==
    /\ initDone
    /\ isActive' = TRUE
    /\ config' = cfg
    /\ Enforce(cfg, FALSE)
    /\ UNCHANGED <<initDone, handlerVars, contextValid, backgroundVars>>

\* deactivate()
Deactivate ==
    /\ initDone
    /\ isActive' = FALSE
    /\ Enforce(NoConfig, FALSE)
    /\ UNCHANGED <<initDone, config, handlerVars, contextValid, backgroundVars>>

\* { ...this.config, ...config }: an update that carries restrictions replaces
\* them, one that does not keeps them; the result is always an object.
MergeConfig(old, upd) ==
    IF upd # NoRestrictions THEN upd
    ELSE IF old = NoConfig THEN [blockDevTools |-> FALSE] ELSE old

\* updateConfig(config)
UpdateConfig(upd) ==
    /\ initDone
    /\ config' = MergeConfig(config, upd)
    /\ IF isActive
       THEN Enforce(config', FALSE)
       ELSE Enforce(NoConfig, FALSE)
    /\ UNCHANGED <<initDone, isActive, handlerVars, contextValid, backgroundVars>>

\* ---------------------------------------------------------------- signals

\* Some script of the page's content world calls console.log.  Each call of
\* startDeveloperToolsDetection wrapped the console.log it found, so one call
\* runs the override of every detector started so far.
ConsoleLog ==
    /\ nDet >= 1
    /\ \A d \in Started : AfterConsoleLog(detectionCount[d]) <= MaxCount
    /\ detectionCount' =
          [d \in Detectors |->
              IF d \in Started THEN AfterConsoleLog(detectionCount[d])
              ELSE detectionCount[d]]
    /\ devToolsOpen' =
          [d \in Detectors |->
              IF d \in Started
              THEN OpenAfterConsoleLog(devToolsOpen[d], detectionCount'[d])
              ELSE devToolsOpen[d]]
    /\ UNCHANGED <<nDet, monitoringInterval, enforcerVars, handlerVars,
                   contextValid, backgroundVars>>

\* Some script calls console.clear.
ConsoleClear ==
    /\ nDet >= 1
    /\ \A d \in Started : AfterConsoleClear(detectionCount[d]) <= MaxCount
    /\ detectionCount' =
          [d \in Detectors |->
              IF d \in Started THEN AfterConsoleClear(detectionCount[d])
              ELSE detectionCount[d]]
    /\ devToolsOpen' = [d \in Detectors |-> devToolsOpen[d] \/ d \in Started]
    /\ UNCHANGED <<nDet, monitoringInterval, enforcerVars, handlerVars,
                   contextValid, backgroundVars>>

\* A tick of detector d's interval in which no collector throws; F is the set
\* of collectors that fire.  When the test succeeds the tick clears its
\* interval and calls handleDeveloperToolsViolation('Detection methods').
PollTickOk(d, F) ==
    LET count == detectionCount[d] + SumWeights(F)
        open == devToolsOpen[d] \/ F # {}
    IN
    /\ monitoringInterval[d]
    /\ count <= MaxCount
    /\ detectionCount' = [detectionCount EXCEPT ![d] = count]
    /\ devToolsOpen' = [devToolsOpen EXCEPT ![d] = open]
    /\ IF ThresholdReached(open, count)
       THEN /\ monitoringInterval' = [monitoringInterval EXCEPT ![d] = FALSE]
            /\ StartViolations(1)
       ELSE UNCHANGED <<monitoringInterval, handlerVars>>
    /\ UNCHANGED <<nDet, enforcerVars, contextValid, backgroundVars>>

\* A tick of detector d's interval in which the i-th collector throws after
\* the collectors in F fired; the catch clause adds its weight and the test
\* is skipped.
PollTickThrows(d, i, F) ==
    LET count == AfterCatch(detectionCount[d] + SumWeights(F))
        open == devToolsOpen[d] \/ F # {}
    IN
    /\ monitoringInterval[d]
    /\ F \subseteq Before(i)
    /\ count <= MaxCount
    /\ detectionCount' = [detectionCount EXCEPT ![d] = count]
    /\ devToolsOpen' = [devToolsOpen EXCEPT ![d] = open]
    /\ UNCHANGED <<nDet, monitoringInterval, enforcerVars, handlerVars,
                   contextValid, backgroundVars>>

\* A right-click on the page: the contextmenu listener of every detector
\* started so far runs, and each calls
\* handleDeveloperToolsViolation('Right-click').
RightClick ==
    /\ nDet >= 1
    /\ \A d \in Started : AfterRightClick(detectionCount[d]) <= MaxCount
    /\ detectionCount' =
          [d \in Detectors |->
              IF d \in Started THEN AfterRightClick(detectionCount[d])
              ELSE detectionCount[d]]
    /\ devToolsOpen' = [d \in Detectors |-> devToolsOpen[d] \/ d \in Started]
    /\ StartViolations(nDet)
    /\ UNCHANGED <<nDet, monitoringInterval, enforcerVars, contextValid,
                   backgroundVars>>

\* F12, Ctrl+Shift+I/J/C or Ctrl+U is pressed: the keydown listener of every
\* blockDevTools call so far runs (stopEnforcement removes none of them: it
\* looks them up under the name 'keydown-devtools'), and each calls
\* handleDeveloperToolsViolation with the key's name.
DevToolsKey ==
    /\ nDet >= 1
    /\ StartViolations(nDet)
    /\ UNCHANGED <<detectorVars, enforcerVars, contextValid, backgroundVars>>

\* -------------------------------------------------------------- background

\* An entry of unauthorizedActions: its type and the call of the page's
\* handleDeveloperToolsViolation it stems from.
Entry(type, h) == [type |-> type, breach |-> h]

\* this.unauthorizedActions.push(action).  The array is kept as a bag: nothing
\* modelled reads the order of its entries, and the cut to the last 100
\* entries needs more entries than the handlers modelled can produce.
Push(actions, entry) == actions (+) SetToBag({entry})

\* handleMessage, case LOG_UNAUTHORIZED_ACTION: logUnauthorizedAction pushes
\* the entry; when it then throws (the backend configuration is missing, the
\* storage write rejects) sendResponse is never called.
BgLogUnauthorizedAction(h, ok) ==
    /\ logReq[h] = "inflight"
    /\ unauthorizedActions' = Push(unauthorizedActions, Entry("DEVELOPER_TOOLS_VIOLATION", h))
    /\ logReq' = [logReq EXCEPT ![h] = IF ok THEN "answered" ELSE "dropped"]
    /\ UNCHANGED <<nHandlers, pc, alerted, location, detReq, enforcerVars,
                   detectorVars, contextValid, emergencyStopped>>

\* handleMessage, case DEVELOPER_TOOLS_DETECTED: handleDeveloperToolsViolation
\* of the background gathers system and network information, logs the
\* violation, notifies, and calls emergencyStop, which logs EMERGENCY_STOP,
\* closes the tabs and opens the violation page.  `fail` is the step that
\* throws; each throw ends in the catch clause of the function it is in.
\* With "backend" the fetch of logUnauthorizedAction rejects, which it catches
\* itself; with "log" and "stop" its storage write rejects.
BgDeveloperToolsDetected(h, fail) ==
    /\ detReq[h] = "inflight"
    /\ detReq' = [detReq EXCEPT ![h] = "handled"]
    /\ unauthorizedActions' =
          CASE fail = "systemInfo" -> unauthorizedActions
            [] fail = "log" -> Push(unauthorizedActions, Entry("DEVELOPER_TOOLS_VIOLATION", h))
            [] OTHER ->
                 Push(Push(unauthorizedActions, Entry("DEVELOPER_TOOLS_VIOLATION", h)),
                      Entry("EMERGENCY_STOP", h))
    /\ emergencyStopped' = (emergencyStopped \/ fail \in {"none", "backend"})
    /\ UNCHANGED <<nHandlers, pc, alerted, location, logReq, enforcerVars,
                   detectorVars, contextValid>>

\* The steps of the background's handling at which a failure is followed.
StopFailures == {"none", "backend", "systemInfo", "log", "stop"}

\* The number of EMERGENCY_STOP requests followed.
MaxStops == 1

\* handleMessage, case EMERGENCY_STOP, and the emergency_stop command:
\* emergencyStop() logs EMERGENCY_STOP, closes the tabs and opens the
\* violation page.  With "backend" the fetch of logUnauthorizedAction rejects,
\* which it catches itself; with "stop" its storage write rejects, which ends
\* in the catch clause of emergencyStop.
BgEmergencyStop(fail) ==
    /\ CopiesIn(Entry("EMERGENCY_STOP", 0), unauthorizedActions) < MaxStops
    /\ unauthorizedActions' = Push(unauthorizedActions, Entry("EMERGENCY_STOP", 0))
    /\ emergencyStopped' = (emergencyStopped \/ fail \in {"none", "backend"})
    /\ UNCHANGED <<enforcerVars, detectorVars, handlerVars, contextValid>>

\* uninstallExtension: the extension removes itself while the page stays
\* open; from then on chrome.runtime.sendMessage throws in the page.
UninstallExtension ==
    /\ contextValid
    /\ contextValid' = FALSE
    /\ UNCHANGED <<enforcerVars, detectorVars, handlerVars, backgroundVars>>

\* ==================================================================== Logger
\* The logging utility of the content scripts (window.STELogger).

\* The buffer's capacity, this.maxLogs, scaled down from the program's 1000,
\* and the number of log calls followed.
MaxLogs == 2
MaxLogged == 3

VARIABLES
    logs,         \* Logger.logs
    maxLogs,      \* Logger.maxLogs
    logLevel,     \* Logger.logLevel
    logged,       \* history: every entry log() was called with since the last clearLogs
    lastSend,     \* what chrome.runtime.sendMessage did in the last log call
    logThrew      \* whether the last call of a Logger method threw to its caller

loggerVars == <<logs, maxLogs, logLevel, logged, lastSend, logThrew>>

\* const levels = ['DEBUG', 'INFO', 'WARN', 'ERROR']
levels == <<"DEBUG", "INFO", "WARN", "ERROR">>
Levels == {levels[i] : i \in 1..Len(levels)}
\* The level names callers pass: the four levels and one that is none of them.
LevelNames == Levels \cup {"INVALID"}

\* What chrome.runtime.sendMessage does when sendToBackground calls it: its
\* promise resolves or rejects, it throws, chrome.runtime is missing, or it
\* returns no promise.
SendOutcomes == {"resolves", "rejects", "throws", "unavailable", "noPromise"}

InitLogger ==
    /\ logs = <<>>
    /\ maxLogs = MaxLogs
    /\ logLevel = "INFO"
    /\ logged = <<>>
    /\ lastSend = "none"
    /\ logThrew = FALSE

\* Array.prototype.indexOf: the 0-based index of the first occurrence, or -1.
IndexOf(array, x) ==
    IF \E i \in 1..Len(array) : array[i] = x
    THEN (CHOOSE i \in 1..Len(array) :
             array[i] = x /\ \A j \in 1..(i - 1) : array[j] # x) - 1
    ELSE -1

\* shouldLog(level) under the log level `current`.
ShouldLog(current, level) == IndexOf(levels, level) >= IndexOf(levels, current)

\* Array.prototype.slice(start): from index start, counted from the end when
\* start is negative, to the end of the array.
Slice(array, start) ==
    LET from == IF start < 0
                THEN (IF Len(array) + start > 0 THEN Len(array) + start ELSE 0)
                ELSE (IF start < Len(array) THEN start ELSE Len(array))
    IN SubSeq(array, from + 1, Len(array))

\* Variant of the cut: the oldest entries are kept.
KeepOldest(array, max) ==
    IF Len(array) > max THEN SubSeq(array, 1, max) ELSE array

\* if (this.logs.length > this.maxLogs) this.logs = this.logs.slice(-this.maxLogs)
KeepRecent(array, max) ==
    IF Len(array) > max THEN Slice(array, 0 - max) ELSE array

\* Variant of sendToBackground without its try and catch.
SendToBackgroundUnguarded(outcome) ==
    IF outcome \in {"throws", "unavailable", "noPromise"} THEN "threw" ELSE "returned"

\* sendToBackground: a rejection is taken by the promise's catch handler, an
\* exception (sendMessage throws, chrome.runtime is undefined, the value
\* returned has no catch method) by the catch clause.
SendToBackground(outcome) == "returned"

LogEntry(level, message) == [level |-> level, message |-> message]

\* log(level, message): push the entry, cut the buffer, write to the console,
\* forward to the background.  The message is the number of the call.
Log(level, outcome) ==
    /\ Len(logged) < MaxLogged
    /\ LET logEntry == LogEntry(level, Len(logged) + 1) IN
         /\ logs' = KeepRecent(Append(logs, logEntry), maxLogs)
         /\ logged' = Append(logged, logEntry)
    /\ lastSend' = outcome
    /\ logThrew' = (SendToBackground(outcome) = "threw")
    /\ UNCHANGED <<maxLogs, logLevel>>

\* A caller calls log(level, ...) itself.
LogCall(level, outcome) == Log(level, outcome)

\* debug(), info(), warn(), error(): log when shouldLog allows the level.
LevelCall(level, outcome) ==
    IF ShouldLog(logLevel, level)
    THEN Log(level, outcome)
    ELSE /\ lastSend' = "none"
         /\ logThrew' = FALSE
         /\ UNCHANGED <<logs, maxLogs, logLevel, logged>>

\* setLogLevel(level)
SetLogLevel(level) ==
    /\ logLevel' = level
    /\ lastSend' = "none"
    /\ logThrew' = FALSE
    /\ UNCHANGED <<logs, maxLogs, logged>>

\* clearLogs()
ClearLogs ==
    /\ logs' = <<>>
    /\ logged' = <<>>
    /\ lastSend' = "none"
    /\ logThrew' = FALSE
    /\ UNCHANGED <<maxLogs, logLevel>>

\* ================================================================= APIClient
\* The REST client (extension/utils/api-client.js).  Strings the client
\* inspects are sequences of characters.

\* The requests followed one after the other share one client; the bound on
\* the attempts a client may be constructed with.
MaxRetryAttempts == 3

\* constructor defaults
DefaultTimeout == 10000
DefaultRetryAttempts == 3
DefaultRetryDelay == 1000

VARIABLES
    client,       \* the APIClient's baseUrl, apiKey, timeout, retryAttempts
                  \* and retryDelay
    reqCall,      \* the API method whose request is under way
    reqPc,        \* the request: idle, fetching, delaying, resolved, rejected
    attempt,      \* requestWithRetry's parameter attempt
    lastOutcome,  \* what the last fetch did
    reqError,     \* the error the request rejected with
    reqDelay      \* the milliseconds the delay under way was started with

clientVars == <<client, reqCall, reqPc, attempt, lastOutcome, reqError, reqDelay>>

NoOutcome == [kind |-> "none"]
NoError == [name |-> "none", message |-> <<>>]

\* The texts of the errors fetch rejects with, and the pieces of the client's
\* own messages.
FailedToFetch ==
    <<"F", "a", "i", "l", "e", "d", " ", "t", "o", " ", "f", "e", "t", "c",
      "h">>
FetchFailed ==
    <<"f", "e", "t", "c", "h", " ", "f", "a", "i", "l", "e", "d">>
NetworkErrorText ==
    <<"N", "e", "t", "w", "o", "r", "k", " ", "e", "r", "r", "o", "r">>
AbortedText ==
    <<"T", "h", "e", " ", "u", "s", "e", "r", " ", "a", "b", "o", "r", "t",
      "e", "d", " ", "a", " ", "r", "e", "q", "u", "e", "s", "t", ".">>
HttpPrefix ==
    <<"H", "T", "T", "P", " ">>
StatusSeparator ==
    <<":", " ">>
FetchWord ==
    <<"f", "e", "t", "c", "h">>
FiveChar ==
    <<"5">>

\* The responses a server gives: status and statusText; response.ok is the
\* status being in the range 200 to 299.
Statuses == {200, 404, 405, 500, 503}
StatusText(status) ==
    CASE status = 200 -> <<"O", "K">>
      [] status = 404 -> <<"N", "o", "t", " ", "F", "o", "u", "n", "d">>
      [] status = 405 -> <<"M", "e", "t", "h", "o", "d", " ", "N", "o", "t", " ", "A", "l", "l", "o", "w", "e", "d">>
      [] status = 500 -> <<"I", "n", "t", "e", "r", "n", "a", "l", " ", "S", "e", "r", "v", "e", "r", " ", "E", "r", "r", "o", "r">>
      [] status = 503 -> <<"S", "e", "r", "v", "i", "c", "e", " ", "U", "n", "a", "v", "a", "i", "l", "a", "b", "l", "e">>

Responses == {[kind |-> "response", status |-> s] : s \in Statuses}
Ok(response) == response.status >= 200 /\ response.status <= 299

\* What fetch rejects with: the browser's network error, the abort raised by
\* the timeout, the error of a mocked fetch.
FetchErrors ==
    { [name |-> "TypeError", message |-> FailedToFetch],
      [name |-> "TypeError", message |-> FetchFailed],
      [name |-> "AbortError", message |-> AbortedText],
      [name |-> "Error", message |-> NetworkErrorText] }
Rejections == {[kind |-> "rejection", error |-> e] : e \in FetchErrors}
FetchOutcomes == Responses \cup Rejections

\* A number in a template literal: its decimal digits.
DigitChars == <<"0", "1", "2", "3", "4", "5", "6", "7", "8", "9">>
RECURSIVE NumberToString(_)
NumberToString(n) ==
    IF n < 10 THEN <<DigitChars[n + 1]>>
    ELSE NumberToString(n \div 10) \o <<DigitChars[(n % 10) + 1]>>

\* String.prototype.includes
Includes(string, part) ==
    \E i \in 0..(Len(string) - Len(part)) :
        SubSeq(string, i + 1, i + Len(part)) = part

\* new Error(`HTTP ${response.status}: ${response.statusText}`)
HttpError(response) ==
    [name |-> "Error",
     message |-> HttpPrefix \o NumberToString(response.status) \o StatusSeparator
                   \o StatusText(response.status)]

\* shouldRetry(error)
ShouldRetry(error) ==
    \/ error.name = "AbortError"
    \/ Includes(error.message, FetchWord)
    \/ Includes(error.message, FiveChar)

\* Variant of the try block: the response is returned whatever its status.
AfterFetchAnyStatus(outcome) ==
    IF outcome.kind = "response"
    THEN [returns |-> TRUE, error |-> NoError]
    ELSE [returns |-> FALSE, error |-> outcome.error]

\* The try block of requestWithRetry once fetch has settled: it returns the
\* body of an ok response and throws otherwise.
AfterFetch(outcome) ==
    IF outcome.kind = "response"
    THEN IF Ok(outcome)
         THEN [returns |-> TRUE, error |-> NoError]
         ELSE [returns |-> FALSE, error |-> HttpError(outcome)]
    ELSE [returns |-> FALSE, error |-> outcome.error]

\* The settings a client is constructed with.
ClientConfigs ==
    [apiUrl : {"", "https://api.example.com"}, retryAttempts : 0..MaxRetryAttempts,
     retryDelay : {0, 500}]

\* constructor(config)
NewAPIClient(cfg) ==
    [baseUrl |-> cfg.apiUrl,
     apiKey |-> "",
     timeout |-> DefaultTimeout,
     retryAttempts |-> IF cfg.retryAttempts # 0 THEN cfg.retryAttempts
                       ELSE DefaultRetryAttempts,
     retryDelay |-> IF cfg.retryDelay # 0 THEN cfg.retryDelay
                    ELSE DefaultRetryDelay]

InitClient ==
    /\ client = NewAPIClient([apiUrl |-> "", retryAttempts |-> 0, retryDelay |-> 0])
    /\ reqCall = "none"
    /\ reqPc = "idle"
    /\ attempt = 0
    /\ lastOutcome = NoOutcome
    /\ reqError = NoError
    /\ reqDelay = 0

\* A page constructs its client.
Construct(cfg) ==
    /\ reqPc = "idle"
    /\ reqCall = "none"
    /\ client' = NewAPIClient(cfg)
    /\ UNCHANGED <<reqCall, reqPc, attempt, lastOutcome, reqError, reqDelay>>

\* request(endpoint, options) up to the first fetch.
Request(call) ==
    /\ reqPc = "idle"
    /\ reqCall' = call
    /\ reqPc' = "fetching"
    /\ attempt' = 1
    /\ lastOutcome' = NoOutcome
    /\ reqError' = NoError
    /\ reqDelay' = 0
    /\ UNCHANGED client

\* getConfig()
GetConfig == Request("getConfig")

\* The settings updateConfig is called with: each field provided or not.
SettingsUpdates ==
    { [apiUrl |-> u, retryAttempts |-> r] :
        u \in {"", "https://new-api.example.com"}, r \in {0, 2} }

\* updateConfig(config).  The class defines updateConfig twice; the second
\* definition, which posts the configuration to /config, is the method.
ClientUpdateConfig(cfg) == Request("updateConfig")

\* Variant of the catch clause's condition: one more attempt is allowed.
RetriesOnceMore(c, n, error) == n <= c.retryAttempts /\ ShouldRetry(error)

\* attempt < this.retryAttempts && this.shouldRetry(error)
Retries(c, n, error) == n < c.retryAttempts /\ ShouldRetry(error)

\* this.retryDelay * attempt
RetryDelay(c, n) == c.retryDelay * n

\* fetch settles: the try block returns, or the catch clause retries after a
\* delay or throws the error it caught.
FetchSettles(outcome) ==
    LET after == AfterFetch(outcome) IN
    /\ reqPc = "fetching"
    /\ lastOutcome' = outcome
    /\ IF after.returns
       THEN reqPc' = "resolved" /\ reqError' = NoError /\ reqDelay' = 0
       ELSE IF Retries(client, attempt, after.error)
            THEN /\ reqPc' = "delaying"
                 /\ reqError' = NoError
                 /\ reqDelay' = RetryDelay(client, attempt)
            ELSE reqPc' = "rejected" /\ reqError' = after.error /\ reqDelay' = 0
    /\ UNCHANGED <<client, reqCall, attempt>>

\* The delay before the next attempt elapses:
\* requestWithRetry(url, config, attempt + 1) issues the next fetch.
DelayElapses ==
    /\ reqPc = "delaying"
    /\ reqPc' = "fetching"
    /\ attempt' = attempt + 1
    /\ reqDelay' = 0
    /\ UNCHANGED <<client, reqCall, lastOutcome, reqError>>

\* The caller has its answer; the client is free for the next request.
RequestReturns ==
    /\ reqPc \in {"resolved", "rejected"}
    /\ reqPc' = "idle"
    /\ reqCall' = "none"
    /\ attempt' = 0
    /\ lastOutcome' = NoOutcome
    /\ reqError' = NoError
    /\ reqDelay' = 0
    /\ UNCHANGED client

\* =========================================================== Integration API
\* SecureTestingEnvironmentAPI, the script a web application includes to talk
\* to the extension (extension/popup/popup.js).

\* The number of messages the queue is followed to.
MaxQueue == 4

VARIABLES
    apiInit,        \* init(): awaitPing, failed, connected
    isConnected,    \* SecureTestingEnvironmentAPI.isConnected
    messageQueue,   \* SecureTestingEnvironmentAPI.messageQueue
    posted          \* the messages handed to window.postMessage for the extension

integrationVars == <<apiInit, isConnected, messageQueue, posted>>

\* The actions the public methods send.
ApiActions == {"GET_STATUS", "ACTIVATE_MONITORING", "DEACTIVATE_MONITORING", "START_SESSION"}

\* sendMessage(message), the queue after the call: a message sent while
\* isConnected is false is queued.
QueueAfterSend(connected, queue, message) ==
    IF ~connected THEN Append(queue, message) ELSE queue

\* sendMessage(message), the messages posted after the call.
PostedAfterSend(connected, sent, message) ==
    IF ~connected THEN sent ELSE Append(sent, message)

\* sendMessage(message), whether the call resolves at once with null.
SendReturnsNull(connected) == ~connected

\* The state once the constructor has returned: it calls init, which calls
\* connectToExtension, which calls sendMessage with the PING and waits for
\* what the call resolves with.
InitIntegration ==
    /\ isConnected = FALSE
    /\ messageQueue = QueueAfterSend(FALSE, <<>>, "PING")
    /\ posted = PostedAfterSend(FALSE, <<>>, "PING")
    /\ apiInit = "awaitPing"

\* connectToExtension continues with the response of its sendMessage call.  A
\* call that resolved with null has no response: connectToExtension throws
\* 'Extension not found or not responding' and init reports the failure.
\* (A PING that was posted stays with the extension until it is answered.)
ConnectContinues ==
    /\ apiInit = "awaitPing"
    /\ SendReturnsNull(isConnected)
    /\ apiInit' = "failed"
    /\ UNCHANGED <<isConnected, messageQueue, posted>>

\* A public method (getStatus, activateMonitoring, ...) calls sendMessage.
ApiCall(action) ==
    /\ Len(messageQueue) < MaxQueue
    /\ Len(posted) < MaxQueue
    /\ messageQueue' = QueueAfterSend(isConnected, messageQueue, action)
    /\ posted' = PostedAfterSend(isConnected, posted, action)
    /\ UNCHANGED <<apiInit, isConnected>>

\* ============================================================ service worker
\* SecureTestingService in the background: the monitoring switch, its
\* configuration and the handlers of the requests that change them.  A
\* handler runs up to its next await, and goes on when what it awaits settles.

\* The number of requests handled at the same time.
MaxRequests == 2

VARIABLES
    swActive,     \* SecureTestingService.isActive
    swInterval,   \* whether the interval of startMonitoring is scheduled (monitoringInterval)
    swConfig,     \* SecureTestingService.config
    swSession,    \* whether chrome.storage.local holds a currentSession
    swReq         \* the position of each handler

workerVars == <<swActive, swInterval, swConfig, swSession, swReq>>

Requests == 1..MaxRequests

\* The keys of config.restrictions the model follows, and the values of
\* config.allowedUrls.
RestrictionFlags == {"blockCopyPaste", "blockNewTabs"}
UrlLists == {"default", "exam"}

\* Objects are functions on their keys.  The restrictions objects: every
\* object with some of the flags.
RestrictionObjects == UNION {[keys -> BOOLEAN] : keys \in SUBSET RestrictionFlags}

\* The configurations a request carries: each of allowedUrls and restrictions
\* present or not.
ConfigUpdates ==
    {<<>>}
      \cup {[k \in {"allowedUrls"} |-> u] : u \in UrlLists}
      \cup {[k \in {"restrictions"} |-> r] : r \in RestrictionObjects}
      \cup {[k \in {"allowedUrls", "restrictions"} |->
                IF k = "allowedUrls" THEN u ELSE r] :
              u \in UrlLists, r \in RestrictionObjects}

\* { ...base, ...updates }: every key of updates replaces the key of base.
Spread(base, updates) ==
    [k \in (DOMAIN base) \cup (DOMAIN updates) |->
        IF k \in DOMAIN updates THEN updates[k] ELSE base[k]]

\* getDefaultConfig()
DefaultConfig ==
    [k \in {"allowedUrls", "restrictions"} |->
        IF k = "allowedUrls" THEN "default"
        ELSE [f \in RestrictionFlags |-> TRUE]]

\* The state after init() on a fresh installation: storage holds neither a
\* configuration nor isActive.
InitWorker ==
    /\ swActive = FALSE
    /\ swInterval = FALSE
    /\ swConfig = DefaultConfig
    /\ swSession = FALSE
    /\ swReq = [h \in Requests |-> "idle"]

\* The requests that switch monitoring or change the configuration.
SwitchActions == {"ACTIVATE_MONITORING", "DEACTIVATE_MONITORING", "START_SESSION",
                  "END_SESSION", "UPDATE_CONFIG"}

\* activateMonitoring(config) up to its storage write.
ActivateStarts(h, cfg) ==
    /\ swConfig' = Spread(swConfig, cfg)
    /\ swActive' = TRUE
    /\ swReq' = [swReq EXCEPT ![h] = "activate:set"]
    /\ UNCHANGED <<swInterval, swSession>>

\* deactivateMonitoring() up to its storage write.
DeactivateStarts(h) ==
    /\ swActive' = FALSE
    /\ swReq' = [swReq EXCEPT ![h] = "deactivate:set"]
    /\ UNCHANGED <<swInterval, swConfig, swSession>>

\* handleMessage(request) up to the first await of the request's case.
HandleMessage(h, action, cfg) ==
    /\ swReq[h] = "idle"
    /\ CASE action = "ACTIVATE_MONITORING" -> ActivateStarts(h, cfg)
         [] action = "DEACTIVATE_MONITORING" -> DeactivateStarts(h)
         [] action = "START_SESSION" ->
               /\ swReq' = [swReq EXCEPT ![h] = "session:set"]
               /\ UNCHANGED <<swActive, swInterval, swConfig, swSession>>
         [] action = "END_SESSION" ->
               /\ swReq' = [swReq EXCEPT ![h] = "end:get"]
               /\ UNCHANGED <<swActive, swInterval, swConfig, swSession>>
         [] action = "UPDATE_CONFIG" ->
               /\ swConfig' = Spread(swConfig, cfg)
               /\ swReq' = [swReq EXCEPT ![h] = "update:set"]
               /\ UNCHANGED <<swActive, swInterval, swSession>>

\* deactivateMonitoring after its storage write: the interval is cleared when
\* the write succeeded; a failed write throws before the clearInterval.
IntervalAfterDeactivate(scheduled, ok) == IF ok THEN FALSE ELSE scheduled

\* The chrome.storage.local call handler h awaits settles; ok tells whether
\* it resolved.
StorageSettles(h, ok) ==
    /\ swReq[h] \notin {"idle", "activate:extensions"}
    /\ CASE swReq[h] = "activate:set" ->
               \* startMonitoring(), then the extensions are looked up; a
               \* failed write ends in the catch clause: isActive = false
               /\ swActive' = (IF ok THEN swActive ELSE FALSE)
               /\ swInterval' = (IF ok THEN TRUE ELSE swInterval)
               /\ swReq' = [swReq EXCEPT ![h] = IF ok THEN "activate:extensions" ELSE "idle"]
               /\ UNCHANGED <<swConfig, swSession>>
         [] swReq[h] = "deactivate:set" ->
               /\ swInterval' = IntervalAfterDeactivate(swInterval, ok)
               /\ swReq' = [swReq EXCEPT ![h] = "idle"]
               /\ UNCHANGED <<swActive, swConfig, swSession>>
         [] swReq[h] = "session:set" ->
               \* startSession: the session is stored, then
               \* activateMonitoring(this.config)
               IF ok
               THEN /\ swSession' = TRUE
                    /\ swConfig' = Spread(swConfig, swConfig)
                    /\ swActive' = TRUE
                    /\ swReq' = [swReq EXCEPT ![h] = "activate:set"]
                    /\ UNCHANGED swInterval
               ELSE /\ swReq' = [swReq EXCEPT ![h] = "idle"]
                    /\ UNCHANGED <<swActive, swInterval, swConfig, swSession>>
         [] swReq[h] = "end:get" ->
               \* endSession: with a session stored its completion is
               \* written first; then deactivateMonitoring()
               IF ok /\ swSession
               THEN /\ swReq' = [swReq EXCEPT ![h] = "end:set"]
                    /\ UNCHANGED <<swActive, swInterval, swConfig, swSession>>
               ELSE IF ok
               THEN DeactivateStarts(h)
               ELSE /\ swReq' = [swReq EXCEPT ![h] = "idle"]
                    /\ UNCHANGED <<swActive, swInterval, swConfig, swSession>>
         [] swReq[h] = "end:set" ->
               IF ok
               THEN /\ swSession' = FALSE
                    /\ swActive' = FALSE
                    /\ swReq' = [swReq EXCEPT ![h] = "deactivate:set"]
                    /\ UNCHANGED <<swInterval, swConfig>>
               ELSE /\ swReq' = [swReq EXCEPT ![h] = "idle"]
                    /\ UNCHANGED <<swActive, swInterval, swConfig, swSession>>
         [] swReq[h] = "update:set" ->
               /\ swReq' = [swReq EXCEPT ![h] = "idle"]
               /\ UNCHANGED <<swActive, swInterval, swConfig, swSession>>

\* chrome.management.getAll settles; activateMonitoring disables the
\* extensions not allowed, or reports that it could not, and returns.
ExtensionsChecked(h) ==
    /\ swReq[h] = "activate:extensions"
    /\ swReq' = [swReq EXCEPT ![h] = "idle"]
    /\ UNCHANGED <<swActive, swInterval, swConfig, swSession>>

\* ======================================================================= tabs
\* The tab listeners of SecureTestingService: handleTabCreated and
\* handleTabRemoved, with the browser's tabs they are told about.

\* The number of tabs created.
MaxTabs == 2

VARIABLES
    tabOpen,      \* the browser's view of each tab: none, open, closing, closed
    allowedTabs,  \* SecureTestingService.allowedTabs
    tabReq,       \* the position of handleTabCreated for each tab
    tabSeen       \* history: what held when each tab was created

tabVars == <<tabOpen, allowedTabs, tabReq, tabSeen>>

Tabs == 1..MaxTabs

\* tab.url when the tab is created; a tab opened by the user starts with an
\* empty url.
TabUrls == {"", "chrome://newtab/", "https://exam.example/", "https://other.example/"}

\* The urls each value of config.allowedUrls matches.
MatchedBy(allowedUrls) ==
    CASE allowedUrls = "default" -> {"chrome://newtab/"}
      [] allowedUrls = "exam" -> {"chrome://newtab/", "https://exam.example/"}

\* isUrlAllowed(url); every list the model follows has entries.
IsUrlAllowed(cfg, url) == url # "" /\ url \in MatchedBy(cfg["allowedUrls"])

\* this.config.restrictions[flag], read as a condition: a key the object
\* lacks is undefined.
Restriction(cfg, flag) ==
    flag \in DOMAIN cfg["restrictions"] /\ cfg["restrictions"][flag]

NotSeen == [created |-> FALSE, active |-> FALSE, block |-> FALSE, allowed |-> FALSE]

InitTabs ==
    /\ tabOpen = [t \in Tabs |-> "none"]
    /\ allowedTabs = {}
    /\ tabReq = [t \in Tabs |-> "idle"]
    /\ tabSeen = [t \in Tabs |-> NotSeen]

\* chrome.tabs.remove(tabId) as handleTabCreated calls it.
TabAfterRemoveCall(state) == IF state = "open" THEN "closing" ELSE state

\* The browser creates tab t, the next id, and handleTabCreated(tab) runs up
\* to its first await: it returns at once when monitoring is off, admits the
\* tab, or logs NEW_TAB_BLOCKED and waits for logUnauthorizedAction, which
\* sends nothing to the backend (backend.apiUrl is empty) and writes the
\* entries to chrome.storage.local.
TabCreated(t, url) ==
    /\ tabOpen[t] = "none"
    /\ \A u \in Tabs : u < t => tabOpen[u] # "none"
    /\ tabOpen' = [tabOpen EXCEPT ![t] = "open"]
    /\ tabSeen' = [tabSeen EXCEPT ![t] =
                      [created |-> TRUE, active |-> swActive,
                       block |-> Restriction(swConfig, "blockNewTabs"),
                       allowed |-> IsUrlAllowed(swConfig, url)]]
    /\ IF ~swActive
       THEN UNCHANGED <<allowedTabs, tabReq, unauthorizedActions>>
       ELSE IF Restriction(swConfig, "blockNewTabs") /\ ~IsUrlAllowed(swConfig, url)
       THEN /\ unauthorizedActions' =
                  Push(unauthorizedActions, Entry("NEW_TAB_BLOCKED", t))
            /\ tabReq' = [tabReq EXCEPT ![t] = "log:set"]
            /\ UNCHANGED allowedTabs
       ELSE /\ allowedTabs' = allowedTabs \cup {t}
            /\ UNCHANGED <<tabReq, unauthorizedActions>>

\* The storage write of logUnauthorizedAction settles.  When it resolved
\* handleTabCreated closes the tab and notifies; a rejected write is thrown
\* out of logUnauthorizedAction and out of handleTabCreated.
TabLogSettles(t, ok) ==
    /\ tabReq[t] = "log:set"
    /\ tabReq' = [tabReq EXCEPT ![t] = "idle"]
    /\ tabOpen' = [tabOpen EXCEPT ![t] = IF ok THEN TabAfterRemoveCall(@) ELSE @]
    /\ UNCHANGED <<allowedTabs, tabSeen, unauthorizedActions>>

\* Tab t goes, closed by its user or by chrome.tabs.remove, and
\* handleTabRemoved(tabId) runs.
TabRemoved(t) ==
    /\ tabOpen[t] \in {"open", "closing"}
    /\ tabOpen' = [tabOpen EXCEPT ![t] = "closed"]
    /\ allowedTabs' = allowedTabs \ {t}
    /\ UNCHANGED <<tabReq, tabSeen, unauthorizedActions>>

\* ========================================================== virtual machine
\* SystemMonitor.detectVirtualMachine: a score summed over the indicators
\* found in the environment the monitor runs in.  Strings the function
\* searches are sequences of characters.

VARIABLES
    vmEnv,      \* what the browser's objects answer to the checks
    vmResult    \* the vmIndicators object the last call returned

vmVars == <<vmEnv, vmResult>>

NoResult == [none |-> TRUE]

\* The amount each indicator adds to confidence, and the score from which
\* isVirtual is set.
UserAgentWeight == 20
CoresWeight == 10
MemoryWeight == 15
ResolutionWeight == 10
GpuWeight == 25
TimezoneWeight == 5
PluginsWeight == 10
ExecutionWeight == 10
VirtualThreshold == 30
\* The limits of the cores, memory (here in MiB: 4 GiB) and execution time
\* (ms) checks.
LowCores == 2
LowMemory == 4096
SlowExecution == 50

\* vmUserAgentPatterns
vmUserAgentPatterns ==
    <<<<"v", "i", "r", "t", "u", "a", "l", "b", "o", "x">>,
      <<"v", "m", "w", "a", "r", "e">>,
      <<"p", "a", "r", "a", "l", "l", "e", "l", "s">>,
      <<"q", "e", "m", "u">>,
      <<"k", "v", "m">>,
      <<"x", "e", "n">>,
      <<"h", "y", "p", "e", "r", "-", "v">>,
      <<"v", "b", "o", "x">>,
      <<"v", "m">>>>

\* vmGpuPatterns
vmGpuPatterns ==
    <<<<"v", "m", "w", "a", "r", "e">>,
      <<"v", "i", "r", "t", "u", "a", "l", "b", "o", "x">>,
      <<"p", "a", "r", "a", "l", "l", "e", "l", "s">>,
      <<"q", "e", "m", "u">>,
      <<"m", "i", "c", "r", "o", "s", "o", "f", "t", " ", "b", "a", "s", "i", "c", " ", "r", "e", "n", "d", "e", "r">>>>

\* commonVMResolutions
commonVMResolutions == {"1024x768", "800x600", "1280x1024", "1366x768"}

UpperCase ==
    <<"A", "B", "C", "D", "E", "F", "G", "H", "I", "J", "K", "L", "M", "N",
      "O", "P", "Q", "R", "S", "T", "U", "V", "W", "X", "Y", "Z">>
LowerCase ==
    <<"a", "b", "c", "d", "e", "f", "g", "h", "i", "j", "k", "l", "m", "n",
      "o", "p", "q", "r", "s", "t", "u", "v", "w", "x", "y", "z">>

\* String.prototype.toLowerCase()
ToLowerCase(string) ==
    [i \in 1..Len(string) |->
        IF \E k \in 1..Len(UpperCase) : UpperCase[k] = string[i]
        THEN LowerCase[CHOOSE k \in 1..Len(UpperCase) : UpperCase[k] = string[i]]
        ELSE string[i]]

\* navigator.userAgent of a browser, and of one that names the VMware product
\* it runs in.
UserAgents == {"chrome", "vmware"}
UserAgentText(ua) ==
    CASE ua = "chrome" ->
          <<"M", "o", "z", "i", "l", "l", "a", "/", "5", ".", "0", " ",
            "C", "h", "r", "o", "m", "e", "/", "1", "2", "0", ".", "0">>
      [] ua = "vmware" ->
          <<"M", "o", "z", "i", "l", "l", "a", "/", "5", ".", "0", " ",
            "V", "M", "w", "a", "r", "e", " ", "C", "h", "r", "o", "m",
            "e", "/", "1", "2", "0", ".", "0">>

\* gl.getParameter(gl.RENDERER) of the WebGL contexts followed; noWebGL: there
\* is no context; nullRenderer: getParameter returns null, as it does on a
\* lost context.
Renderers == {"intel", "vmware", "basicRender"}
Graphics == Renderers \cup {"noWebGL", "nullRenderer"}
RendererText(gpu) ==
    CASE gpu = "intel" ->
          <<"A", "N", "G", "L", "E", " ", "(", "I", "n", "t", "e", "l",
            ",", " ", "I", "n", "t", "e", "l", "(", "R", ")", " ", "U",
            "H", "D", " ", "G", "r", "a", "p", "h", "i", "c", "s", ")">>
      [] gpu = "vmware" ->
          <<"V", "M", "w", "a", "r", "e", " ", "S", "V", "G", "A", " ",
            "3", "D">>
      [] gpu = "basicRender" ->
          <<"M", "i", "c", "r", "o", "s", "o", "f", "t", " ", "B", "a",
            "s", "i", "c", " ", "R", "e", "n", "d", "e", "r", " ", "D",
            "r", "i", "v", "e", "r">>

\* The environments: window.screen is undefined where the monitor runs
\* without a window (the extension's service worker), and navigator.plugins
\* is undefined there too.
Resolutions == {"1024x768", "1920x1080", "noWindow"}
Timezones == {"UTC", "Europe/Berlin"}
PluginCounts == {"none", "some", "undefined"}
Environments ==
    [userAgent : UserAgents, cores : {2, 8}, memory : {0, 8192},
     resolution : Resolutions, gpu : Graphics, timezone : Timezones,
     plugins : PluginCounts, executionTime : {10, 60}]

\* The number of patterns the string includes, each counted once.
Matches(string, patterns) ==
    Cardinality({i \in 1..Len(patterns) : Includes(string, patterns[i])})

\* The object returned when a check throws: the catch clause records the
\* error, confidence keeps what was added so far and isVirtual its initial
\* false.
Thrown(confidence) == [isVirtual |-> FALSE, confidence |-> confidence, threw |-> TRUE]

\* detectVirtualMachine()
DetectVirtualMachine(env) ==
    LET afterUserAgent ==
            UserAgentWeight
              * Matches(ToLowerCase(UserAgentText(env.userAgent)), vmUserAgentPatterns)
        afterCores ==
            afterUserAgent + (IF env.cores <= LowCores THEN CoresWeight ELSE 0)
        afterMemory ==
            afterCores + (IF env.memory < LowMemory THEN MemoryWeight ELSE 0)
        afterResolution ==
            afterMemory
              + (IF env.resolution \in commonVMResolutions THEN ResolutionWeight ELSE 0)
        afterGpu ==
            afterResolution
              + (IF env.gpu \in Renderers
                 THEN GpuWeight * Matches(ToLowerCase(RendererText(env.gpu)), vmGpuPatterns)
                 ELSE 0)
        afterTimezone ==
            afterGpu + (IF env.timezone = "UTC" THEN TimezoneWeight ELSE 0)
        afterPlugins ==
            afterTimezone + (IF env.plugins = "none" THEN PluginsWeight ELSE 0)
        afterExecution ==
            afterPlugins
              + (IF env.executionTime > SlowExecution THEN ExecutionWeight ELSE 0)
    IN  IF env.resolution = "noWindow" THEN Thrown(afterMemory)
        ELSE IF env.gpu = "nullRenderer" THEN Thrown(afterResolution)
        ELSE IF env.plugins = "undefined" THEN Thrown(afterTimezone)
        ELSE [isVirtual |-> afterExecution >= VirtualThreshold,
              confidence |-> afterExecution, threw |-> FALSE]

\* A machine that shows none of the indicators.
OrdinaryEnvironment ==
    [userAgent |-> "chrome", cores |-> 8, memory |-> 8192, resolution |-> "1920x1080",
     gpu |-> "intel", timezone |-> "Europe/Berlin", plugins |-> "some",
     executionTime |-> 10]

\* The monitor is loaded into one of the environments envs and has not run
\* yet.
InitVm(envs) ==
    /\ vmEnv \in envs
    /\ vmResult = NoResult

\* getSystemInfo() calls detectVirtualMachine().
DetectCall ==
    /\ vmResult' = DetectVirtualMachine(vmEnv)
    /\ UNCHANGED vmEnv

\* ================================================================ enforcement
\* What SecurityEnforcer attaches to the page: the listeners startEnforcement
\* adds and the page functions it replaces, with the two maps stopEnforcement
\* works from.  The operations are those of the page part above, followed
\* here for the listeners and functions; what a listener's call sets off is
\* followed there.

\* The number of startEnforcement calls that install something.
MaxStarts == 3

VARIABLES
    enfLoaded,          \* init() has passed loadConfiguration
    enfActive,          \* SecurityEnforcer.isActive
    enfConfig,          \* SecurityEnforcer.config
    enfStarts,          \* the number of startEnforcement calls that installed something
    eventListeners,     \* SecurityEnforcer.eventListeners: key -> listener
    originalFunctions,  \* SecurityEnforcer.originalFunctions: name -> function
    attached,           \* the listeners attached to document and window
    pageFunctions,      \* the value of each page function followed
    lastEvent           \* history: the last event of the page and what became of it

enforcementVars == <<enfLoaded, enfActive, enfConfig, enfStarts, eventListeners,
                     originalFunctions, attached, pageFunctions, lastEvent>>

\* A listener or an override is known by the startEnforcement call that
\* created it; 0 is the page's original function.
Starts == 1..MaxStarts
Original == 0

\* The restrictions followed, and the configurations: a configuration is
\* known by the set of restrictions that are on in config.restrictions.
EnforcerFlags == {"blockCopyPaste", "blockRightClick", "blockDevTools",
                  "blockPrintScreen", "blockScreenshots"}
EnforcerConfigs ==
    {[restrictions |-> on] :
        on \in {{}, {"blockDevTools"}, EnforcerFlags \ {"blockDevTools"}, EnforcerFlags}}

\* An update without the key restrictions.
KeepRestrictions == [keep |-> TRUE]

\* this.config.restrictions?.[flag]
FlagOn(cfg, flag) == cfg # NoConfig /\ flag \in cfg.restrictions

\* The keys of eventListeners followed (cut and paste go with copy, focus
\* with blur), and the listener startDeveloperToolsDetection adds without
\* recording it.
ListenerKeys == {"copy", "contextmenu", "keydown-devtools", "keydown-printscreen", "blur"}
DetectionContextMenu == "detection-contextmenu"

\* addEventListener as each installer calls it: target, event type, capture.
Registration(key) ==
    CASE key = "copy" -> <<"document", "copy", TRUE>>
      [] key = "contextmenu" -> <<"document", "contextmenu", TRUE>>
      [] key = "keydown-devtools" -> <<"document", "keydown", TRUE>>
      [] key = "keydown-printscreen" -> <<"document", "keydown", TRUE>>
      [] key = "blur" -> <<"window", "blur", FALSE>>

\* The page functions followed: window.print goes with window.open, the other
\* clipboard methods with readText, getUserMedia with getDisplayMedia.
FunctionNames == {"window.open", "navigator.clipboard.readText",
                  "navigator.mediaDevices.getDisplayMedia"}

\* The keys startEnforcement records listeners under, and the functions it
\* replaces, for a configuration.
KeysInstalled(cfg) ==
    {"blur"}
      \cup (IF FlagOn(cfg, "blockCopyPaste") THEN {"copy"} ELSE {})
      \cup (IF FlagOn(cfg, "blockRightClick") THEN {"contextmenu"} ELSE {})
      \cup (IF FlagOn(cfg, "blockDevTools") THEN {"keydown-devtools"} ELSE {})
      \cup (IF FlagOn(cfg, "blockPrintScreen") THEN {"keydown-printscreen"} ELSE {})
FunctionsReplaced(cfg) ==
    {"window.open"}
      \cup (IF FlagOn(cfg, "blockCopyPaste") THEN {"navigator.clipboard.readText"} ELSE {})
      \cup (IF FlagOn(cfg, "blockScreenshots")
            THEN {"navigator.mediaDevices.getDisplayMedia"} ELSE {})

\* map.set(key, value) for each key of keys
SetAll(map, keys, value) ==
    [k \in (DOMAIN map) \cup keys |-> IF k \in keys THEN value[k] ELSE map[k]]

NoEvent == [event |-> "none", prevented |-> FALSE, logged |-> FALSE,
            violation |-> FALSE, active |-> FALSE, flagOn |-> FALSE]

\* The state after the constructor: init() waits for the answer to GET_STATUS.
InitEnforcement ==
    /\ enfLoaded = FALSE
    /\ enfActive = FALSE
    /\ enfConfig = NoConfig
    /\ enfStarts = 0
    /\ eventListeners = <<>>
    /\ originalFunctions = <<>>
    /\ attached = {}
    /\ pageFunctions = [f \in FunctionNames |-> Original]
    /\ lastEvent = NoEvent

\* startEnforcement() with this.config = cfg
StartEnforcement(cfg) ==
    IF cfg = NoConfig
    THEN UNCHANGED <<enfStarts, eventListeners, originalFunctions, attached, pageFunctions>>
    ELSE LET g == enfStarts + 1 IN
         /\ enfStarts < MaxStarts
         /\ enfStarts' = g
         /\ attached' =
               attached \cup {<<k, g>> : k \in KeysInstalled(cfg)}
                        \cup (IF FlagOn(cfg, "blockDevTools")
                              THEN {<<DetectionContextMenu, g>>} ELSE {})
         /\ eventListeners' =
               SetAll(eventListeners, KeysInstalled(cfg), [k \in ListenerKeys |-> g])
         /\ originalFunctions' =
               SetAll(originalFunctions, FunctionsReplaced(cfg), pageFunctions)
         /\ pageFunctions' =
               [f \in FunctionNames |->
                   IF f \in FunctionsReplaced(cfg) THEN g ELSE pageFunctions[f]]

\* document.removeEventListener(key, listener, true) takes a listener off
\* when it was added to document, for the event type `key`, capturing.
Removes(key) == Registration(key) = <<"document", key, TRUE>>

\* The listeners and functions after stopEnforcement().
AttachedAfterStop(listeners, att) ==
    att \ {<<k, listeners[k]>> : k \in {x \in DOMAIN listeners : Removes(x)}}
FunctionsAfterStop(originals, functions) ==
    [f \in FunctionNames |-> IF f \in DOMAIN originals THEN originals[f] ELSE functions[f]]

\* stopEnforcement()
StopEnforcement ==
    /\ attached' = AttachedAfterStop(eventListeners, attached)
    /\ eventListeners' = <<>>
    /\ pageFunctions' = FunctionsAfterStop(originalFunctions, pageFunctions)
    /\ originalFunctions' = <<>>
    /\ UNCHANGED enfStarts

\* stopEnforcement() followed by startEnforcement() with this.config = cfg
RestartEnforcement(cfg) ==
    LET att == AttachedAfterStop(eventListeners, attached)
        functions == FunctionsAfterStop(originalFunctions, pageFunctions)
        g == enfStarts + 1
    IN  /\ enfStarts < MaxStarts
        /\ enfStarts' = g
        /\ attached' =
              att \cup {<<k, g>> : k \in KeysInstalled(cfg)}
                  \cup (IF FlagOn(cfg, "blockDevTools")
                        THEN {<<DetectionContextMenu, g>>} ELSE {})
        /\ eventListeners' = [k \in KeysInstalled(cfg) |-> g]
        /\ originalFunctions' = [f \in FunctionsReplaced(cfg) |-> functions[f]]
        /\ pageFunctions' =
              [f \in FunctionNames |->
                  IF f \in FunctionsReplaced(cfg) THEN g ELSE functions[f]]

\* The handler of a violation redirects the page, which ends the enforcer.
PageLeaving == lastEvent.violation

\* init(): loadConfiguration, then startEnforcement when active.
EnforcerInit(resp) ==
    /\ ~enfLoaded
    /\ enfLoaded' = TRUE
    /\ enfActive' = IF resp = LoadFailed THEN enfActive ELSE resp.isActive
    /\ enfConfig' = IF resp = LoadFailed THEN enfConfig ELSE resp.config
    /\ IF enfActive'
       THEN StartEnforcement(enfConfig')
       ELSE UNCHANGED <<enfStarts, eventListeners, originalFunctions, attached, pageFunctions>>
    /\ UNCHANGED lastEvent

\* activate(config)
EnforcerActivate(cfg) ==
    /\ enfLoaded /\ ~PageLeaving
    /\ enfActive' = TRUE
    /\ enfConfig' = cfg
    /\ StartEnforcement(cfg)
    /\ UNCHANGED <<enfLoaded, lastEvent>>

\* deactivate()
EnforcerDeactivate ==
    /\ enfLoaded /\ ~PageLeaving
    /\ enfActive' = FALSE
    /\ StopEnforcement
    /\ UNCHANGED <<enfLoaded, enfConfig, lastEvent>>

\* { ...this.config, ...config } for the configurations followed.
SpreadConfig(old, upd) ==
    IF upd # KeepRestrictions THEN upd
    ELSE IF old = NoConfig THEN [restrictions |-> {}] ELSE old

\* updateConfig(config)
EnforcerUpdateConfig(upd) ==
    /\ enfLoaded /\ ~PageLeaving
    /\ enfConfig' = SpreadConfig(enfConfig, upd)
    /\ IF enfActive
       THEN RestartEnforcement(enfConfig')
       ELSE UNCHANGED <<enfStarts, eventListeners, originalFunctions, attached, pageFunctions>>
    /\ UNCHANGED <<enfLoaded, enfActive, lastEvent>>

\* The events of the page followed, the restriction each belongs to (window
\* blur is watched under every configuration), and the listeners that act on
\* each.
PageEvents == {"copy", "contextmenu", "F12", "PrintScreen", "blur"}
FlagOf(event) ==
    CASE event = "copy" -> "blockCopyPaste"
      [] event = "contextmenu" -> "blockRightClick"
      [] event = "F12" -> "blockDevTools"
      [] event = "PrintScreen" -> "blockPrintScreen"
Attached(key) == \E g \in Starts : <<key, g>> \in attached

\* e.preventDefault() is called by some listener
Prevented(event) ==
    CASE event = "copy" -> Attached("copy")
      [] event = "contextmenu" -> Attached("contextmenu") \/ Attached(DetectionContextMenu)
      [] event = "F12" -> Attached("keydown-devtools")
      [] event = "PrintScreen" -> Attached("keydown-printscreen")
      [] event = "blur" -> FALSE
\* handleDeveloperToolsViolation is called by some listener
Violation(event) ==
    CASE event = "contextmenu" -> Attached(DetectionContextMenu)
      [] event = "F12" -> Attached("keydown-devtools")
      [] OTHER -> FALSE
\* logBlockedAction is called, by a listener or by handleDeveloperToolsViolation
Logged(event) ==
    CASE event = "blur" -> Attached("blur")
      [] OTHER -> Prevented(event)

\* The browser dispatches an event of the page to the listeners attached.
PageEvent(event) ==
    /\ enfLoaded /\ ~PageLeaving
    /\ lastEvent' = [event |-> event, prevented |-> Prevented(event),
                     logged |-> Logged(event), violation |-> Violation(event),
                     active |-> enfActive,
                     flagOn |-> event = "blur" \/ FlagOn(enfConfig, FlagOf(event))]
    /\ UNCHANGED <<enfLoaded, enfActive, enfConfig, enfStarts, eventListeners,
                   originalFunctions, attached, pageFunctions>>

\* ============================================================ content scripts
\* KeyboardTracker and PageMonitor: each loads isActive from the background
\* when it initialises, and is started and stopped by messages.

\* The keystrokes KeyboardTracker sends in one batch and the batches its
\* buffer holds, scaled down from the program's 50 and 200 (maxKeystrokes is
\* 10000); the keystrokes followed beyond a full buffer.
BatchSize == 2
MaxBatches == 2
MaxExtra == 2
\* The number of times PageMonitor installs its monitors, and the entries of
\* each pageData list followed.
MaxInstalls == 2
MaxPageData == 3

VARIABLES
    ktLoaded,      \* KeyboardTracker.init() has passed loadConfiguration
    ktActive,      \* KeyboardTracker.isActive
    ktListening,   \* the key listeners are attached to document
    keystrokes,    \* KeyboardTracker.keystrokes
    ktRecorded,    \* history: keystrokes recorded since the buffer was last empty
    ktBatches,     \* history: STORE_KEYSTROKES messages sent since then
    pmLoaded,      \* PageMonitor.init() has passed loadConfiguration
    pmActive,      \* PageMonitor.isActive
    pmInstalled,   \* the number of times the monitors were installed and not removed
    pmInteractions, \* the length of pageData.interactions
    pmRequests,    \* the length of pageData.networkRequests
    pmStopped      \* history: stopMonitoring() ran and startMonitoring() was not called since

trackerVars == <<ktLoaded, ktActive, ktListening, keystrokes, ktRecorded, ktBatches>>
monitorVars == <<pmLoaded, pmActive, pmInstalled, pmInteractions, pmRequests, pmStopped>>

\* this.maxKeystrokes
MaxKeystrokes == BatchSize * MaxBatches

\* The answers to GET_STATUS as far as the two scripts read them.
ActiveAnswers == [isActive : BOOLEAN]

InitScripts ==
    /\ ktLoaded = FALSE
    /\ ktActive = FALSE
    /\ ktListening = FALSE
    /\ keystrokes = <<>>
    /\ ktRecorded = 0
    /\ ktBatches = 0
    /\ pmLoaded = FALSE
    /\ pmActive = FALSE
    /\ pmInstalled = 0
    /\ pmInteractions = 0
    /\ pmRequests = 0
    /\ pmStopped = FALSE

\* loadConfiguration(): isActive after the answer, or after no answer.
ActiveAfterLoad(active, resp) == IF resp = LoadFailed THEN active ELSE resp.isActive

\* KeyboardTracker.init(): loadConfiguration, then startTracking() when
\* active, which returns at once because isActive is already true.
TrackerInit(resp) ==
    /\ ~ktLoaded
    /\ ktLoaded' = TRUE
    /\ ktActive' = ActiveAfterLoad(ktActive, resp)
    /\ UNCHANGED <<ktListening, keystrokes, ktRecorded, ktBatches>>

\* startTracking()
StartTracking ==
    /\ ktLoaded
    /\ IF ktActive
       THEN UNCHANGED <<ktActive, ktListening>>
       ELSE ktActive' = TRUE /\ ktListening' = TRUE
    /\ UNCHANGED <<ktLoaded, keystrokes, ktRecorded, ktBatches>>

\* stopTracking()
StopTracking ==
    /\ ktLoaded
    /\ IF ~ktActive
       THEN UNCHANGED <<ktActive, ktListening>>
       ELSE ktActive' = FALSE /\ ktListening' = FALSE
    /\ UNCHANGED <<ktLoaded, keystrokes, ktRecorded, ktBatches>>

\* keystrokes.length % 50 === 0, and sendKeystrokesToBackground() sends
\* unless the buffer is empty
SendsBatch(buffer) == Len(buffer) % BatchSize = 0 /\ Len(buffer) # 0

\* A key event reaches handleKeyDown, handleKeyUp or handleKeyPress, which
\* calls recordKeystroke.
KeyEvent ==
    /\ ktListening
    /\ ktRecorded < MaxKeystrokes + MaxExtra
    /\ IF ~ktActive
       THEN UNCHANGED <<keystrokes, ktRecorded, ktBatches>>
       ELSE /\ keystrokes' = KeepRecent(Append(keystrokes, ktRecorded + 1), MaxKeystrokes)
            /\ ktRecorded' = ktRecorded + 1
            /\ ktBatches' = IF SendsBatch(keystrokes') THEN ktBatches + 1 ELSE ktBatches
    /\ UNCHANGED <<ktLoaded, ktActive, ktListening>>

\* clearKeystrokes()
ClearKeystrokes ==
    /\ ktLoaded
    /\ keystrokes' = <<>>
    /\ ktRecorded' = 0
    /\ ktBatches' = 0
    /\ UNCHANGED <<ktLoaded, ktActive, ktListening>>

\* PageMonitor.init(): loadConfiguration, then startMonitoring() when active,
\* which returns at once because isActive is already true.
MonitorInit(resp) ==
    /\ ~pmLoaded
    /\ pmLoaded' = TRUE
    /\ pmActive' = ActiveAfterLoad(pmActive, resp)
    /\ UNCHANGED <<pmInstalled, pmInteractions, pmRequests, pmStopped>>

\* handleMessage, case EXTENSION_READY: loadConfiguration again, then
\* startMonitoring() when active.
ExtensionReady(resp) ==
    /\ pmLoaded
    /\ pmActive' = ActiveAfterLoad(pmActive, resp)
    /\ UNCHANGED <<pmLoaded, pmInstalled, pmInteractions, pmRequests, pmStopped>>

\* startMonitoring(): every monitor adds its listeners, and
\* monitorNetworkRequests wraps window.fetch once more.
StartMonitoring ==
    /\ pmLoaded
    /\ IF pmActive
       THEN UNCHANGED <<pmActive, pmInstalled>>
       ELSE /\ pmInstalled < MaxInstalls
            /\ pmActive' = TRUE
            /\ pmInstalled' = pmInstalled + 1
    /\ pmStopped' = FALSE
    /\ UNCHANGED <<pmLoaded, pmInteractions, pmRequests>>

\* The monitors installed after stopMonitoring(): the entries of observers
\* that have a disconnect method are disconnected; the entries for event
\* listeners have none, and window.fetch is not put back.
InstalledAfterStop(installed) == installed

\* stopMonitoring()
StopMonitoring ==
    /\ pmLoaded
    /\ IF ~pmActive
       THEN UNCHANGED <<pmActive, pmInstalled, pmStopped>>
       ELSE /\ pmActive' = FALSE
            /\ pmInstalled' = InstalledAfterStop(pmInstalled)
            /\ pmStopped' = TRUE
    /\ UNCHANGED <<pmLoaded, pmInteractions, pmRequests>>

\* A click in the page: each listener attached for it calls
\* recordInteraction.
PageClick ==
    /\ pmInstalled > 0
    /\ pmInteractions + pmInstalled <= MaxPageData
    /\ pmInteractions' = pmInteractions + pmInstalled
    /\ UNCHANGED <<pmLoaded, pmActive, pmInstalled, pmRequests, pmStopped>>

\* The page calls window.fetch: each wrapper around it calls
\* recordNetworkRequest.
PageFetch ==
    /\ pmInstalled > 0
    /\ pmRequests + pmInstalled <= MaxPageData
    /\ pmRequests' = pmRequests + pmInstalled
    /\ UNCHANGED <<pmLoaded, pmActive, pmInstalled, pmInteractions, pmStopped>>

\* clearPageData()
ClearPageData ==
    /\ pmLoaded
    /\ pmInteractions' = 0
    /\ pmRequests' = 0
    /\ UNCHANGED <<pmLoaded, pmActive, pmInstalled, pmStopped>>

\* =============================================================== isUrlAllowed
\* isUrlAllowed of SecureTestingService, computed on sequences of characters.

\* The longest url and the longest allow-list followed.
MaxUrlLen == 3
MaxListLen == 2

VARIABLES
    urlList,      \* config.allowedUrls when isUrlAllowed is called
    urlArg,       \* the url it is called with
    urlResult     \* what the call returned

urlVars == <<urlList, urlArg, urlResult>>

NotCalled == [called |-> FALSE]

\* The characters of the urls, and the entries of the allow-lists: literal
\* prefixes, prefixes with a dot, entries with '*'.
UrlChars == {"a", "b", "."}
Star == "*"
Dot == "."
AllowedEntries ==
    { <<"a", "b">>, <<"a", ".">>, <<"a", "*">>, <<"a", "*", "b">>, <<"*", "b">> }

RECURSIVE SeqsUpTo(_, _)
SeqsUpTo(S, n) ==
    IF n = 0 THEN {<<>>}
    ELSE LET shorter == SeqsUpTo(S, n - 1) IN
         shorter \cup {Append(s, x) : s \in shorter, x \in S}

Urls == SeqsUpTo(UrlChars, MaxUrlLen)
AllowLists == SeqsUpTo(AllowedEntries, MaxListLen)

\* url.startsWith(allowedUrl)
StartsWith(url, prefix) ==
    Len(prefix) <= Len(url) /\ SubSeq(url, 1, Len(prefix)) = prefix

\* allowedUrl.includes('*')
HasStar(entry) == \E i \in 1..Len(entry) : entry[i] = Star

\* new RegExp(allowedUrl.replace(/\*/g, '.*')) matching the url from position
\* at: every '*' of the entry has become '.*', any run of characters, and a
\* '.' of the entry is the pattern that matches any one character.
RECURSIVE RegExpMatchesAt(_, _, _, _)
RegExpMatchesAt(entry, k, url, at) ==
    IF k > Len(entry) THEN TRUE
    ELSE IF entry[k] = Star
         THEN \E next \in at..(Len(url) + 1) : RegExpMatchesAt(entry, k + 1, url, next)
         ELSE /\ at <= Len(url)
              /\ entry[k] = Dot \/ entry[k] = url[at]
              /\ RegExpMatchesAt(entry, k + 1, url, at + 1)

\* regex.test(url): the pattern has no anchor, so a match may start anywhere.
RegExpTest(entry, url) ==
    \E at \in 1..(Len(url) + 1) : RegExpMatchesAt(entry, 1, url, at)

\* The callback of allowedUrls.some
EntryAllows(entry, url) ==
    IF HasStar(entry) THEN RegExpTest(entry, url) ELSE StartsWith(url, entry)

\* isUrlAllowed(url) with this.config.allowedUrls = list
UrlAllowedIn(list, url) ==
    IF url = <<>> \/ Len(list) = 0
    THEN FALSE
    ELSE \E i \in 1..Len(list) : EntryAllows(list[i], url)

InitUrls(lists, urls) ==
    /\ urlList \in lists
    /\ urlArg \in urls
    /\ urlResult = NotCalled

\* isUrlAllowed(urlArg) is called and returns.
IsUrlAllowedCall ==
    /\ urlResult = NotCalled
    /\ urlResult' = [called |-> TRUE, allowed |-> UrlAllowedIn(urlList, urlArg)]
    /\ UNCHANGED <<urlList, urlArg>>

\* ====================================================== logUnauthorizedAction
\* logUnauthorizedAction of SecureTestingService followed call by call, with
\* the list itself and the copy of it in chrome.storage.local; the other
\* specifications follow the bag of the list's entries.

\* The calls followed, and the entries the list is cut to (100 in the code).
MaxLogCalls == 3
KeptActions == 2

VARIABLES
    actionLog,      \* this.unauthorizedActions, each entry known by its call
    logPc,          \* each call: none, fetch, set, done, threw
    writeQueue,     \* the chrome.storage.local.set calls not yet settled
    storedActions,  \* unauthorizedActions in chrome.storage.local
    lastWrite,      \* how the write settled last ended
    actionsLogged   \* history: every entry pushed, in order

actionVars == <<actionLog, logPc, writeQueue, storedActions, lastWrite, actionsLogged>>

LogCalls == 1..MaxLogCalls

InitActions ==
    /\ actionLog = <<>>
    /\ logPc = [c \in LogCalls |-> "none"]
    /\ writeQueue = <<>>
    /\ storedActions = <<>>
    /\ lastWrite = "none"
    /\ actionsLogged = <<>>

\* Variant of the storage write: only the newest action is written.
StoredCopyNewest(list) == SubSeq(list, Len(list), Len(list))

\* { unauthorizedActions: this.unauthorizedActions }, the value handed to
\* chrome.storage.local.set, copied when set is called.
StoredCopy(list) == list

\* chrome.storage.local.set(...) is called by call c.
QueueAfterSet(queue, c, list) == Append(queue, [call |-> c, copy |-> StoredCopy(list)])

\* logUnauthorizedAction(type, data) is called, the next call, and runs to
\* its first await: it pushes the action, cuts the list, and either starts
\* the fetch to the backend (backend.apiUrl is set) or the storage write.
LogUnauthorizedAction(c, backend) ==
    /\ logPc[c] = "none"
    /\ \A b \in LogCalls : b < c => logPc[b] # "none"
    /\ actionLog' = KeepRecent(Append(actionLog, c), KeptActions)
    /\ actionsLogged' = Append(actionsLogged, c)
    /\ IF backend
       THEN /\ logPc' = [logPc EXCEPT ![c] = "fetch"]
            /\ UNCHANGED writeQueue
       ELSE /\ logPc' = [logPc EXCEPT ![c] = "set"]
            /\ writeQueue' = QueueAfterSet(writeQueue, c, actionLog')
    /\ UNCHANGED <<storedActions, lastWrite>>

\* The fetch of call c settles; a rejection is caught and logged.  The call
\* goes on to the storage write of the list as it then is.
ActionFetchSettles(c) ==
    /\ logPc[c] = "fetch"
    /\ logPc' = [logPc EXCEPT ![c] = "set"]
    /\ writeQueue' = QueueAfterSet(writeQueue, c, actionLog)
    /\ UNCHANGED <<actionLog, storedActions, lastWrite, actionsLogged>>

\* The oldest storage write settles: resolved, the copy is in storage and the
\* call returns; rejected, storage is as it was and the call throws.
ActionWriteSettles(ok) ==
    /\ writeQueue # <<>>
    /\ LET write == Head(writeQueue) IN
       /\ storedActions' = IF ok THEN write.copy ELSE storedActions
       /\ logPc' = [logPc EXCEPT ![write.call] = IF ok THEN "done" ELSE "threw"]
    /\ lastWrite' = IF ok THEN "resolved" ELSE "rejected"
    /\ writeQueue' = Tail(writeQueue)
    /\ UNCHANGED <<actionLog, actionsLogged>>

\* =================================================================== sessions
\* startSession and endSession of SecureTestingService, and the intervals
\* startMonitoring schedules, followed along the steps of the service
\* worker's handlers.

VARIABLES
    swTimers,        \* the number of system-check intervals scheduled
    currentSession,  \* currentSession in chrome.storage.local
    lastSession,     \* lastSession in chrome.storage.local
    swData,          \* each handler: sessionData, or the session endSession read
    swKind,          \* each handler: the request it is handling
    startedSession   \* history: the session of the START_SESSION that succeeded last

sessionVars == <<swTimers, currentSession, lastSession, swData, swKind, startedSession>>

NoSession == [sessionId |-> "none", status |-> "none"]

\* request.sessionData of the START_SESSION requests
SessionIds == {"s1", "s2"}
SessionData == [sessionId : SessionIds, status : {"pending"}]

SessionActions == {"ACTIVATE_MONITORING", "DEACTIVATE_MONITORING", "START_SESSION",
                   "END_SESSION"}

InitSessions ==
    /\ swTimers = 0
    /\ currentSession = NoSession
    /\ lastSession = NoSession
    /\ swData = [h \in Requests |-> NoSession]
    /\ swKind = [h \in Requests |-> "none"]
    /\ startedSession = NoSession

\* Variant of startMonitoring without the clearInterval.
TimersAfterStartUncleared(tracked, timers) == timers + 1

\* startMonitoring(): clearInterval(this.monitoringInterval) when there is
\* one, then setInterval.
TimersAfterStart(tracked, timers) == (IF tracked THEN timers - 1 ELSE timers) + 1

\* if (this.monitoringInterval) clearInterval(this.monitoringInterval)
TimersAfterClear(tracked, timers) == IF tracked THEN timers - 1 ELSE timers

\* Variant of the session stored: the status of sessionData is kept.
ActiveSessionAsGiven(data) == data

\* { ...sessionData, startTime: Date.now(), status: 'active' }
ActiveSession(data) == [data EXCEPT !.status = "active"]

\* session.endTime = Date.now(); session.status = 'completed'
CompletedSession(session) == [session EXCEPT !.status = "completed"]

\* handleMessage(request) for the requests that switch monitoring or a
\* session, up to its first await.
SessionMessage(h, action, data) ==
    /\ HandleMessage(h, action, <<>>)
    /\ swKind' = [swKind EXCEPT ![h] = action]
    /\ swData' = [swData EXCEPT ![h] = IF action = "START_SESSION" THEN data ELSE NoSession]
    /\ startedSession' = IF action = "START_SESSION" THEN NoSession ELSE startedSession
    /\ UNCHANGED <<swTimers, currentSession, lastSession>>

\* The request of handler h ends here: its handler returned or threw.
RequestEnds(h) == swKind' = [swKind EXCEPT ![h] = "none"]

\* The chrome.storage.local call handler h awaits settles.
SessionStorageSettles(h, ok) ==
    /\ StorageSettles(h, ok)
    /\ CASE swReq[h] = "activate:set" ->
               \* startMonitoring() after the write; a failed write throws
               /\ swTimers' = IF ok THEN TimersAfterStart(swInterval, swTimers) ELSE swTimers
               /\ IF ok THEN UNCHANGED swKind ELSE RequestEnds(h)
               /\ UNCHANGED <<currentSession, lastSession, swData>>
         [] swReq[h] = "deactivate:set" ->
               /\ swTimers' = IF ok THEN TimersAfterClear(swInterval, swTimers) ELSE swTimers
               /\ RequestEnds(h)
               /\ UNCHANGED <<currentSession, lastSession, swData>>
         [] swReq[h] = "session:set" ->
               /\ currentSession' = IF ok THEN ActiveSession(swData[h]) ELSE currentSession
               /\ IF ok THEN UNCHANGED swKind ELSE RequestEnds(h)
               /\ UNCHANGED <<swTimers, lastSession, swData>>
         [] swReq[h] = "end:get" ->
               \* const session = result.currentSession
               /\ swData' = [swData EXCEPT ![h] = IF ok THEN currentSession ELSE @]
               /\ IF ok THEN UNCHANGED swKind ELSE RequestEnds(h)
               /\ UNCHANGED <<swTimers, currentSession, lastSession>>
         [] swReq[h] = "end:set" ->
               /\ currentSession' = IF ok THEN NoSession ELSE currentSession
               /\ lastSession' = IF ok THEN CompletedSession(swData[h]) ELSE lastSession
               /\ IF ok THEN UNCHANGED swKind ELSE RequestEnds(h)
               /\ UNCHANGED <<swTimers, swData>>
         [] OTHER ->
               /\ RequestEnds(h)
               /\ UNCHANGED <<swTimers, currentSession, lastSession, swData>>
    /\ UNCHANGED startedSession

\* chrome.management.getAll settles and activateMonitoring returns; with it
\* ACTIVATE_MONITORING or START_SESSION has succeeded.
SessionExtensionsChecked(h) ==
    /\ ExtensionsChecked(h)
    /\ RequestEnds(h)
    /\ startedSession' = IF swKind[h] = "START_SESSION"
                         THEN ActiveSession(swData[h]) ELSE startedSession
    /\ UNCHANGED <<swTimers, currentSession, lastSession, swData>>

\* ============================================================== ConfigManager
\* ConfigManager (extension/background/config-manager.js).  The nested
\* objects of a configuration are objects of their own: a shallow copy
\* { ...config } shares them with the configuration it was copied from.

VARIABLES
    cmDefault,   \* the nested objects of this.defaultConfig, as they are now
    cmLoaded,    \* whether this.config is set
    cmShared,    \* each section: this.config[section] is defaultConfig's object
    cmOwn,       \* each section that is not shared: the object of this.config
    cmStored,    \* config in chrome.storage.local
    cmExported,  \* the configuration exportConfig serialised last
    cmLast       \* history: the call made last, and the configuration before it

managerVars == <<cmDefault, cmLoaded, cmShared, cmOwn, cmStored, cmExported, cmLast>>

\* The sections followed and their fields.
Sections == {"restrictions", "backend"}
NothingStored == [stored |-> FALSE]
NothingExported == [exported |-> FALSE]
NoCall == [call |-> "none"]

\* getDefaultConfig()
BuiltInConfig ==
    [s \in Sections |->
        IF s = "restrictions" THEN [f \in {"blockCopyPaste"} |-> TRUE]
        ELSE [f \in {"apiKey"} |-> ""]]

\* The objects updateConfig is called with, and the arguments of
\* setConfigValue: a path of two keys and a value.
RestrictionUpdates ==
    { [s \in {"restrictions"} |-> [f \in {"blockCopyPaste"} |-> on]] : on \in BOOLEAN }
ApiKeys == {"", "key-1"}
BackendUpdates ==
    { [s \in {"backend"} |-> [f \in {"apiKey"} |-> key]] : key \in ApiKeys }

\* A section of no object of its own.
Unused == <<>>

\* this.config, section by section, as a reader of it sees it.
LiveConfig(shared, own, default) ==
    [s \in Sections |-> IF shared[s] THEN default[s] ELSE own[s]]

\* constructor(), and the state before loadConfig has run.
InitManager ==
    /\ cmDefault = BuiltInConfig
    /\ cmLoaded = FALSE
    /\ cmShared = [s \in Sections |-> FALSE]
    /\ cmOwn = [s \in Sections |-> Unused]
    /\ cmStored = NothingStored
    /\ cmExported = NothingExported
    /\ cmLast = NoCall

\* { ...this.defaultConfig }: every section is defaultConfig's object.
ShallowCopyOfDefault ==
    /\ cmShared' = [s \in Sections |-> TRUE]
    /\ cmOwn' = [s \in Sections |-> Unused]

\* saveConfig(): chrome.storage.local.set({ config }) stores a serialised
\* copy; a rejected write is logged.
SaveConfig(ok, shared, own, default) ==
    cmStored' = IF ok THEN LiveConfig(shared, own, default) ELSE cmStored

\* mergeConfigs(base, updates) for a section updates has: a new object with
\* the fields of base[section] and those of updates[section] over them.
MergedSection(base, updates) == Spread(base, updates)

\* The service worker starts again: a new ConfigManager.
ManagerRestart ==
    /\ cmLoaded
    /\ cmDefault' = BuiltInConfig
    /\ cmLoaded' = FALSE
    /\ cmShared' = [s \in Sections |-> FALSE]
    /\ cmOwn' = [s \in Sections |-> Unused]
    /\ cmLast' = NoCall
    /\ UNCHANGED <<cmStored, cmExported>>

\* loadConfig(): the stored configuration merged over the default one, or a
\* shallow copy of the default one, saved when storage had none.
LoadConfig(readOk, saveOk) ==
    /\ ~cmLoaded
    /\ cmLoaded' = TRUE
    /\ cmLast' = [call |-> "loadConfig"]
    /\ IF readOk /\ cmStored # NothingStored
       THEN /\ cmShared' = [s \in Sections |-> FALSE]
            /\ cmOwn' = [s \in Sections |-> MergedSection(cmDefault[s], cmStored[s])]
            /\ UNCHANGED cmStored
       ELSE /\ ShallowCopyOfDefault
            /\ IF readOk
               THEN SaveConfig(saveOk, cmShared', cmOwn', cmDefault)
               ELSE UNCHANGED cmStored
    /\ UNCHANGED <<cmDefault, cmExported>>

\* updateConfig(updates)
ManagerUpdateConfig(updates, saveOk) ==
    /\ cmLoaded
    /\ cmShared' = [s \in Sections |-> IF s \in DOMAIN updates THEN FALSE ELSE cmShared[s]]
    /\ cmOwn' = [s \in Sections |->
                    IF s \in DOMAIN updates
                    THEN MergedSection(LiveConfig(cmShared, cmOwn, cmDefault)[s], updates[s])
                    ELSE cmOwn[s]]
    /\ SaveConfig(saveOk, cmShared', cmOwn', cmDefault)
    /\ cmLast' = [call |-> "updateConfig"]
    /\ UNCHANGED <<cmDefault, cmLoaded, cmExported>>

\* setConfigValue('section.field', value): the loop walks to
\* this.config[section] and the value is assigned on that object.
SetConfigValue(s, field, value, saveOk) ==
    LET assigned(object) == Spread(object, [f \in {field} |-> value])
    IN
    /\ cmLoaded
    /\ IF cmShared[s]
       THEN /\ cmDefault' = [cmDefault EXCEPT ![s] = assigned(@)]
            /\ UNCHANGED cmOwn
       ELSE /\ cmOwn' = [cmOwn EXCEPT ![s] = assigned(@)]
            /\ UNCHANGED cmDefault
    /\ SaveConfig(saveOk, cmShared, cmOwn', cmDefault')
    /\ cmLast' = [call |-> "setConfigValue"]
    /\ UNCHANGED <<cmLoaded, cmShared, cmExported>>

\* resetConfig()
ResetConfig(saveOk) ==
    /\ cmLoaded
    /\ ShallowCopyOfDefault
    /\ SaveConfig(saveOk, cmShared', cmOwn', cmDefault)
    /\ cmLast' = [call |-> "resetConfig"]
    /\ UNCHANGED <<cmDefault, cmLoaded, cmExported>>

\* delete object.apiKey
WithoutApiKey(object) == [f \in (DOMAIN object) \ {"apiKey"} |-> object[f]]

\* exportConfig(): getConfig() and { ...config } are shallow copies, so
\* exportConfig.backend is the object of this.config; the key is deleted on
\* it and the copy is serialised.
ExportConfig ==
    /\ cmLoaded
    /\ IF cmShared["backend"]
       THEN /\ cmDefault' = [cmDefault EXCEPT !["backend"] = WithoutApiKey(@)]
            /\ UNCHANGED cmOwn
       ELSE /\ cmOwn' = [cmOwn EXCEPT !["backend"] = WithoutApiKey(@)]
            /\ UNCHANGED cmDefault
    /\ cmExported' = LiveConfig(cmShared, cmOwn', cmDefault')
    /\ cmLast' = [call |-> "exportConfig", before |-> LiveConfig(cmShared, cmOwn, cmDefault)]
    /\ UNCHANGED <<cmLoaded, cmShared, cmStored>>

\* =========================================================== specifications
\* Each specification follows one component; the others rest in their
\* initial state.

\* The state of isUrlAllowed's calls, of logUnauthorizedAction, of the
\* sessions and of ConfigManager.
moreVars == <<urlVars, actionVars, sessionVars, managerVars>>

allVars == <<vars, consoleLogCalls, loggerVars, clientVars, integrationVars,
             workerVars, tabVars, vmVars, enforcementVars, trackerVars,
             monitorVars, moreVars>>

\* Every component but the system monitor, before any call of isUrlAllowed
\* is followed.
InitComponents ==
    /\ Init
    /\ InitLogger
    /\ InitClient
    /\ InitIntegration
    /\ InitWorker
    /\ InitTabs
    /\ InitEnforcement
    /\ InitScripts
    /\ InitManager
    /\ InitSessions
    /\ InitActions

NoUrlInputs == InitUrls({<<>>}, {<<>>})

InitAll == InitComponents /\ InitVm({OrdinaryEnvironment}) /\ NoUrlInputs

\* A step of the page that leaves the other components alone.
InPage(step) ==
    step /\ UNCHANGED <<consoleLogCalls, loggerVars, clientVars,
                        integrationVars, workerVars, tabVars, vmVars,
                        enforcementVars, trackerVars, monitorVars,
                        moreVars>>

\* A step of the page during which the console.log overrides of the
\* detectors in `called` run.
InPageLogging(step, called) ==
    /\ step
    /\ consoleLogCalls' =
          [d \in Detectors |->
              IF d \in called THEN consoleLogCalls[d] + 1 ELSE consoleLogCalls[d]]
    /\ UNCHANGED <<loggerVars, clientVars, integrationVars, workerVars,
                  tabVars, vmVars, enforcementVars, trackerVars, monitorVars,
                        moreVars>>

InLogger(step) ==
    step /\ UNCHANGED <<vars, consoleLogCalls, clientVars, integrationVars,
                        workerVars, tabVars, vmVars, enforcementVars,
                        trackerVars, monitorVars,
                        moreVars>>

InClient(step) ==
    step /\ UNCHANGED <<vars, consoleLogCalls, loggerVars, integrationVars,
                        workerVars, tabVars, vmVars, enforcementVars,
                        trackerVars, monitorVars,
                        moreVars>>

InIntegration(step) ==
    step /\ UNCHANGED <<vars, consoleLogCalls, loggerVars, clientVars,
                        workerVars, tabVars, vmVars, enforcementVars,
                        trackerVars, monitorVars,
                        moreVars>>

InWorker(step) ==
    step /\ UNCHANGED <<vars, consoleLogCalls, loggerVars, clientVars,
                        integrationVars, tabVars, vmVars, enforcementVars,
                        trackerVars, monitorVars,
                        moreVars>>

\* A step of the tab listeners, which log to unauthorizedActions.
InTabs(step) ==
    /\ step
    /\ UNCHANGED <<enforcerVars, detectorVars, handlerVars, contextValid,
                   emergencyStopped, consoleLogCalls, loggerVars, clientVars,
                   integrationVars, workerVars, vmVars, enforcementVars,
                   trackerVars, monitorVars,
                        moreVars>>

InVm(step) ==
    step /\ UNCHANGED <<vars, consoleLogCalls, loggerVars, clientVars,
                        integrationVars, workerVars, tabVars,
                        enforcementVars, trackerVars, monitorVars,
                        moreVars>>

InEnforcement(step) ==
    step /\ UNCHANGED <<vars, consoleLogCalls, loggerVars, clientVars,
                        integrationVars, workerVars, tabVars, vmVars,
                        trackerVars, monitorVars,
                        moreVars>>

InTracker(step) ==
    step /\ UNCHANGED <<vars, consoleLogCalls, loggerVars, clientVars,
                        integrationVars, workerVars, tabVars, vmVars,
                        enforcementVars, monitorVars,
                        moreVars>>

InMonitor(step) ==
    step /\ UNCHANGED <<vars, consoleLogCalls, loggerVars, clientVars,
                        integrationVars, workerVars, tabVars, vmVars,
                        enforcementVars, trackerVars,
                        moreVars>>

InUrls(step) ==
    step /\ UNCHANGED <<vars, consoleLogCalls, loggerVars, clientVars,
                        integrationVars, workerVars, tabVars, vmVars,
                        enforcementVars, trackerVars, monitorVars, actionVars, sessionVars, managerVars>>

InActions(step) ==
    step /\ UNCHANGED <<vars, consoleLogCalls, loggerVars, clientVars,
                        integrationVars, workerVars, tabVars, vmVars,
                        enforcementVars, trackerVars, monitorVars, urlVars, sessionVars, managerVars>>

\* A step of the service worker's handlers with the sessions they store.
InSessions(step) ==
    step /\ UNCHANGED <<vars, consoleLogCalls, loggerVars, clientVars,
                        integrationVars, tabVars, vmVars, enforcementVars,
                        trackerVars, monitorVars, urlVars, actionVars,
                        managerVars>>

InManager(step) ==
    step /\ UNCHANGED <<vars, consoleLogCalls, loggerVars, clientVars,
                        integrationVars, workerVars, tabVars, vmVars,
                        enforcementVars, trackerVars, monitorVars, urlVars, actionVars, sessionVars>>

StatusAnswers == [isActive : {FALSE}, config : Configs \cup {NoConfig}]
                    \cup [isActive : {TRUE}, config : Configs]

\* The page: the enforcer's operations, the signals, the ticks and the
\* listeners that call the reaction dispatcher.
Next ==
    \/ \E resp \in StatusAnswers \cup {LoadFailed} : InPage(LoadConfiguration(resp))
    \/ \E cfg \in Configs \cup {NoConfig} : InPage(Activate(cfg))
    \/ InPage(Deactivate)
    \/ \E upd \in Configs \cup {NoRestrictions} : InPage(UpdateConfig(upd))
    \/ \E d \in Detectors : \E F \in SUBSET CollectorNames : InPage(PollTickOk(d, F))
    \/ \E d \in Detectors : \E i \in 1..Len(Collectors) :
          \E F \in SUBSET Before(i) : InPage(PollTickThrows(d, i, F))
    \/ InPage(ConsoleLog)
    \/ InPage(ConsoleClear)
    \/ InPage(RightClick)
    \/ InPage(DevToolsKey)

Spec == InitAll /\ [][Next]_allVars

\* The collectors, with the calls each console.log override has seen.
NextCollectors ==
    \/ \E resp \in StatusAnswers \cup {LoadFailed} :
          InPageLogging(LoadConfiguration(resp), 1..nDet')
    \/ \E cfg \in Configs \cup {NoConfig} : InPage(Activate(cfg))
    \/ \E d \in Detectors : \E F \in SUBSET CollectorNames : InPage(PollTickOk(d, F))
    \/ \E d \in Detectors : \E i \in 1..Len(Collectors) :
          \E F \in SUBSET Before(i) : InPage(PollTickThrows(d, i, F))
    \/ InPageLogging(ConsoleLog, Started)
    \/ InPage(ConsoleClear)

SpecCollectors == InitAll /\ [][NextCollectors]_allVars

\* The reaction dispatcher and the background that receives its messages.
NextReaction ==
    \/ \E resp \in StatusAnswers \cup {LoadFailed} : InPage(LoadConfiguration(resp))
    \/ \E cfg \in Configs \cup {NoConfig} : InPage(Activate(cfg))
    \/ InPage(Deactivate)
    \/ InPage(DevToolsKey)
    \/ \E h \in Handlers : InPage(LogResolve(h))
    \/ \E h \in Handlers : InPage(LogReject(h))
    \/ \E h \in Handlers : \E ok \in BOOLEAN : InPage(BgLogUnauthorizedAction(h, ok))
    \/ \E h \in Handlers : \E fail \in StopFailures :
          InPage(BgDeveloperToolsDetected(h, fail))
    \/ InPage(UninstallExtension)

SpecReaction == InitAll /\ [][NextReaction]_allVars

\* The browser settles every sendMessage promise: with the background's
\* answer, or with a rejection when there is none to come.
FairReaction ==
    /\ SpecReaction
    /\ \A h \in Handlers : WF_allVars(InPage(LogResolve(h) \/ LogReject(h)))

\* The background handles every message it is sent and the page runs the
\* continuation of every answered call, but nothing ends a call that the
\* background leaves unanswered.
FairReactionNoAck ==
    /\ SpecReaction
    /\ \A h \in Handlers : WF_allVars(InPage(LogResolve(h)))
    /\ \A h \in Handlers :
          WF_allVars(InPage(\E ok \in BOOLEAN : BgLogUnauthorizedAction(h, ok)))

\* The Logger: its callers log, set the level and clear the buffer.
NextLogger ==
    \/ \E level \in LevelNames : \E outcome \in SendOutcomes :
          InLogger(LogCall(level, outcome))
    \/ \E level \in Levels : \E outcome \in SendOutcomes :
          InLogger(LevelCall(level, outcome))
    \/ \E level \in LevelNames : InLogger(SetLogLevel(level))
    \/ InLogger(ClearLogs)

SpecLogger == InitAll /\ [][NextLogger]_allVars

\* The API client: requests one after the other, each with its retries.
NextClient ==
    \/ \E cfg \in ClientConfigs : InClient(Construct(cfg))
    \/ InClient(GetConfig)
    \/ \E cfg \in SettingsUpdates : InClient(ClientUpdateConfig(cfg))
    \/ \E outcome \in FetchOutcomes : InClient(FetchSettles(outcome))
    \/ InClient(DelayElapses)
    \/ InClient(RequestReturns)

SpecClient == InitAll /\ [][NextClient]_allVars

\* The Integration API in a page whose application calls its methods.
NextIntegration ==
    \/ InIntegration(ConnectContinues)
    \/ \E action \in ApiActions : InIntegration(ApiCall(action))

SpecIntegration == InitAll /\ [][NextIntegration]_allVars

\* The service worker: requests arrive, and what their handlers await
\* settles.
NextWorker ==
    \/ \E h \in Requests : \E action \in SwitchActions : \E cfg \in ConfigUpdates :
          InWorker(HandleMessage(h, action, cfg))
    \/ \E h \in Requests : \E ok \in BOOLEAN : InWorker(StorageSettles(h, ok))
    \/ \E h \in Requests : InWorker(ExtensionsChecked(h))

SpecWorker == InitAll /\ [][NextWorker]_allVars

\* The emergency stop: violations of the page that the background answers,
\* and EMERGENCY_STOP requests.
NextEmergency ==
    \/ \E resp \in StatusAnswers \cup {LoadFailed} : InPage(LoadConfiguration(resp))
    \/ InPage(DevToolsKey)
    \/ \E h \in Handlers : InPage(LogResolve(h))
    \/ \E h \in Handlers : \E ok \in BOOLEAN : InPage(BgLogUnauthorizedAction(h, ok))
    \/ \E h \in Handlers : \E fail \in StopFailures :
          InPage(BgDeveloperToolsDetected(h, fail))
    \/ \E fail \in {"none", "backend", "stop"} : InPage(BgEmergencyStop(fail))

SpecEmergency == InitAll /\ [][NextEmergency]_allVars

\* The tabs of the browser while requests, handled one after the other,
\* switch monitoring and change the configuration.
NextTabs ==
    \/ \E action \in {"ACTIVATE_MONITORING", "DEACTIVATE_MONITORING"} :
          \E cfg \in ConfigUpdates : InWorker(HandleMessage(1, action, cfg))
    \/ \E ok \in BOOLEAN : InWorker(StorageSettles(1, ok))
    \/ InWorker(ExtensionsChecked(1))
    \/ \E t \in Tabs : \E url \in TabUrls : InTabs(TabCreated(t, url))
    \/ \E t \in Tabs : \E ok \in BOOLEAN : InTabs(TabLogSettles(t, ok))
    \/ \E t \in Tabs : InTabs(TabRemoved(t))

SpecTabs == InitAll /\ [][NextTabs]_allVars

\* The system monitor, loaded into any of the environments.
InitMonitored == InitComponents /\ InitVm(Environments) /\ NoUrlInputs

NextVm == InVm(DetectCall)

SpecVm == InitMonitored /\ [][NextVm]_allVars

\* The enforcer's operations and the events of its page.
EnforcerAnswers == [isActive : BOOLEAN, config : EnforcerConfigs \cup {NoConfig}]

NextEnforcement ==
    \/ \E resp \in EnforcerAnswers \cup {LoadFailed} : InEnforcement(EnforcerInit(resp))
    \/ \E cfg \in EnforcerConfigs \cup {NoConfig} : InEnforcement(EnforcerActivate(cfg))
    \/ InEnforcement(EnforcerDeactivate)
    \/ \E upd \in EnforcerConfigs \cup {KeepRestrictions} :
          InEnforcement(EnforcerUpdateConfig(upd))
    \/ \E event \in PageEvents : InEnforcement(PageEvent(event))

SpecEnforcement == InitAll /\ [][NextEnforcement]_allVars

\* The keyboard tracker and the page monitor of one page.
NextScripts ==
    \/ \E resp \in ActiveAnswers \cup {LoadFailed} : InTracker(TrackerInit(resp))
    \/ InTracker(StartTracking)
    \/ InTracker(StopTracking)
    \/ InTracker(KeyEvent)
    \/ InTracker(ClearKeystrokes)
    \/ \E resp \in ActiveAnswers \cup {LoadFailed} : InMonitor(MonitorInit(resp))
    \/ \E resp \in ActiveAnswers \cup {LoadFailed} : InMonitor(ExtensionReady(resp))
    \/ InMonitor(StartMonitoring)
    \/ InMonitor(StopMonitoring)
    \/ InMonitor(PageClick)
    \/ InMonitor(PageFetch)
    \/ InMonitor(ClearPageData)

SpecScripts == InitAll /\ [][NextScripts]_allVars

\* isUrlAllowed, called once with any allow-list and any url of the bounds.
InitUrlInputs ==
    InitComponents /\ InitVm({OrdinaryEnvironment}) /\ InitUrls(AllowLists, Urls)

NextUrls == InUrls(IsUrlAllowedCall)

SpecUrls == InitUrlInputs /\ [][NextUrls]_allVars

\* logUnauthorizedAction: calls arrive while earlier ones wait for the
\* backend or for storage.
NextActions ==
    \/ \E c \in LogCalls : \E backend \in BOOLEAN : InActions(LogUnauthorizedAction(c, backend))
    \/ \E c \in LogCalls : InActions(ActionFetchSettles(c))
    \/ \E ok \in BOOLEAN : InActions(ActionWriteSettles(ok))

SpecActions == InitAll /\ [][NextActions]_allVars

\* The service worker's monitoring and session requests, handled
\* concurrently.
NextSessions ==
    \/ \E h \in Requests : \E action \in SessionActions :
       \E data \in [sessionId : {"s1"}, status : {"pending"}] :
          InSessions(SessionMessage(h, action, data))
    \/ \E h \in Requests : \E ok \in BOOLEAN : InSessions(SessionStorageSettles(h, ok))
    \/ \E h \in Requests : InSessions(SessionExtensionsChecked(h))

SpecSessions == InitAll /\ [][NextSessions]_allVars

\* The same requests handled one after the other: a request arrives when the
\* one before it has been answered.
NextSessionsInTurn ==
    \/ \E action \in SessionActions : \E data \in SessionData :
          InSessions(SessionMessage(1, action, data))
    \/ \E ok \in BOOLEAN : InSessions(SessionStorageSettles(1, ok))
    \/ InSessions(SessionExtensionsChecked(1))

SpecSessionsInTurn == InitAll /\ [][NextSessionsInTurn]_allVars

\* The ConfigManager of the service worker and the calls made on it.
NextManager ==
    \/ \E readOk, saveOk \in BOOLEAN : InManager(LoadConfig(readOk, saveOk))
    \/ \E updates \in RestrictionUpdates : \E saveOk \in BOOLEAN :
          InManager(ManagerUpdateConfig(updates, saveOk))
    \/ \E updates \in BackendUpdates : \E saveOk \in BOOLEAN :
          InManager(ManagerUpdateConfig(updates, saveOk))
    \/ \E on, saveOk \in BOOLEAN :
          InManager(SetConfigValue("restrictions", "blockCopyPaste", on, saveOk))
    \/ \E key \in ApiKeys : \E saveOk \in BOOLEAN :
          InManager(SetConfigValue("backend", "apiKey", key, saveOk))
    \/ \E saveOk \in BOOLEAN : InManager(ResetConfig(saveOk))
    \/ InManager(ExportConfig)
    \/ InManager(ManagerRestart)

SpecManager == InitAll /\ [][NextManager]_allVars

\* ------------------------------------------------------------------ claims

\* A step that is a tick of detector d's interval.
Tick(d) ==
    \/ \E F \in SUBSET CollectorNames : PollTickOk(d, F)
    \/ \E i \in 1..Len(Collectors) : \E F \in SUBSET Before(i) : PollTickThrows(d, i, F)

\* A step in which detector d's tick clears its interval and dispatches; only
\* a tick clears the interval.
TickDispatches(d) == monitoringInterval[d] /\ ~monitoringInterval'[d]

\* C1: the reaction dispatcher handleDeveloperToolsViolation is called at most
\* once in a page session, whatever ticks, key presses and right-clicks occur.
C1_DispatchedAtMostOnce == nHandlers <= 1

\* C2: every step that calls the reaction dispatcher leaves no polling
\* interval scheduled.
C2_TimerCancelledOnDispatch ==
    [][nHandlers' > nHandlers => \A d \in Detectors : ~monitoringInterval'[d]]_vars

\* C3: once the enforcer has been deactivated (and until it is activated
\* again) no poll tick runs, no signal is added to a counter and no violation
\* is dispatched.
C3_NothingAfterTeardown ==
    [][(initDone /\ ~isActive) =>
          /\ ~(\E d \in Detectors : Tick(d))
          /\ detectionCount' = detectionCount
          /\ nHandlers' = nHandlers]_vars

C8_ThrowingTickCounts ==
    [][\A d \in Detectors : \A i \in 1..Len(Collectors) : \A F \in SUBSET Before(i) :
          PollTickThrows(d, i, F) =>
             /\ detectionCount'[d] > detectionCount[d] + SumWeights(F)
             /\ monitoringInterval'[d]
             /\ nHandlers' = nHandlers]_vars

\* C8, witness: the counter holds the catch weight alone, the flag is not
\* set and the interval is still scheduled.
C8_Witness ==
    /\ nDet = 1 /\ monitoringInterval[1] /\ ~devToolsOpen[1]
    /\ detectionCount[1] = CatchWeight
    /\ nHandlers = 0

\* C9: every detector's counter is 0 until the detector starts, is never
\* negative and never decreases.
C9_CounterMonotone ==
    /\ [](\A d \in Detectors :
             detectionCount[d] >= 0 /\ (d > nDet => detectionCount[d] = 0))
    /\ [][\A d \in Detectors : detectionCount'[d] >= detectionCount[d]]_vars

\* C9, witness: a counter that has grown to 14 over several signals.
C9_Witness ==
    /\ nDet = 1
    /\ detectionCount[1] =
          ConsoleLogWeight + ConsoleClearWeight + WindowSizeWeight + CatchWeight

\* C10: the background's log holds at most one DEVELOPER_TOOLS_VIOLATION
\* entry per call of the page's reaction dispatcher.
C10_OneRecordPerViolation ==
    \A h \in Handlers :
        CopiesIn(Entry("DEVELOPER_TOOLS_VIOLATION", h), unauthorizedActions) <= 1

\* C11: every collector adds its fixed weight when it fires, and a firing of
\* the console.log collector marks dev tools as open exactly when that
\* collector has itself seen more than three calls, whatever the other
\* collectors and absorbed exceptions have added to the counter.
C11_FlagFromOwnObservations ==
    [][\A d \in Detectors :
          /\ \A F \in SUBSET CollectorNames :
                PollTickOk(d, F) => detectionCount'[d] = detectionCount[d] + SumWeights(F)
          /\ (ConsoleLog /\ d \in Started) =>
                /\ detectionCount'[d] = detectionCount[d] + ConsoleLogWeight
                /\ ~devToolsOpen[d] =>
                      (devToolsOpen'[d] <=> consoleLogCalls'[d] > ConsoleLogLimit)]_allVars

\* The last n entries of a history, in the order they were logged.
MostRecent(history, n) ==
    LET kept == IF Len(history) < n THEN Len(history) ELSE n
    IN [i \in 1..kept |-> history[Len(history) - kept + i]]

\* C12: the buffer never holds more than maxLogs entries, and it holds the
\* most recently logged entries in the order they were logged.
C12_BufferHoldsMostRecent ==
    /\ Len(logs) <= maxLogs
    /\ logs = MostRecent(logged, maxLogs)

\* C12, witness: more entries were logged than the buffer holds, and the
\* buffer is full.
C12_Witness ==
    /\ Len(logged) > maxLogs
    /\ Len(logs) = maxLogs
    /\ logs[1].message = Len(logged) - maxLogs + 1

\* The rank of a level among DEBUG < INFO < WARN < ERROR.
Rank(level) ==
    CASE level = "DEBUG" -> 1
      [] level = "INFO" -> 2
      [] level = "WARN" -> 3
      [] level = "ERROR" -> 4

\* C13: whatever level setLogLevel was given, shouldLog is false for a
\* message level that is none of DEBUG, INFO, WARN, ERROR, and for the four
\* levels it is true exactly when the message level ranks at or above the
\* current level.
C13_ShouldLogByRank ==
    \A level \in LevelNames :
        /\ level \notin Levels => ~ShouldLog(logLevel, level)
        /\ (level \in Levels /\ logLevel \in Levels) =>
              (ShouldLog(logLevel, level) <=> Rank(level) >= Rank(logLevel))

\* C14: a log call whose forwarding fails (the promise rejects, sendMessage
\* throws, chrome.runtime is missing, no promise comes back) does not throw
\* to its caller, and its entry is the last of the buffer afterwards.
C14_LogSurvivesForwardingFailure ==
    [][\A level \in LevelNames : \A outcome \in SendOutcomes \ {"resolves"} :
          Log(level, outcome) =>
             /\ ~logThrew'
             /\ Len(logs') > 0
             /\ logs'[Len(logs')] = LogEntry(level, Len(logged) + 1)]_allVars

\* C14, witness: sendMessage threw in the last log call, the call returned
\* and its entry is in the buffer.
C14_Witness ==
    /\ lastSend = "throws"
    /\ ~logThrew
    /\ Len(logs) > 0
    /\ logs[Len(logs)] = logged[Len(logged)]

\* C15: shouldRetry is true for the abort of a timeout, for the network
\* errors fetch rejects with and for the error of a 5xx response, and false
\* for the error of every 4xx response.
C15_RetryByErrorClass ==
    /\ (lastOutcome.kind = "response" /\ ~Ok(lastOutcome)) =>
          (ShouldRetry(HttpError(lastOutcome)) <=> lastOutcome.status >= 500)
    /\ (lastOutcome.kind = "rejection"
           /\ lastOutcome.error.name \in {"AbortError", "TypeError"}) =>
          ShouldRetry(lastOutcome.error)

\* C16: a request resolves only when its final response is ok; when the final
\* response is not ok it rejects with the error 'HTTP <status>: <statusText>',
\* and when the final fetch rejected it rejects with that very error.
C16_NotOkRejects ==
    /\ reqPc = "resolved" => (lastOutcome.kind = "response" /\ Ok(lastOutcome))
    /\ (reqPc \in {"resolved", "rejected"}
           /\ lastOutcome.kind = "response" /\ ~Ok(lastOutcome)) =>
          (reqPc = "rejected" /\ reqError = HttpError(lastOutcome))
    /\ (reqPc \in {"resolved", "rejected"} /\ lastOutcome.kind = "rejection") =>
          (reqPc = "rejected" /\ reqError = lastOutcome.error)

\* C16, witness: a request rejected with 'HTTP 404: Not Found'.
C16_Witness ==
    /\ reqPc = "rejected"
    /\ lastOutcome.kind = "response"
    /\ reqError.name = "Error"
    /\ reqError.message =
          <<"H", "T", "T", "P", " ", "4", "0", "4", ":", " ", "N", "o", "t",
            " ", "F", "o", "u", "n", "d">>

\* The settings after an update of them: a field the update provides (a
\* value that is not falsy) replaces the setting, the others stay.
SettingsAfter(settings, update) ==
    [settings EXCEPT
        !.baseUrl = IF update.apiUrl # "" THEN update.apiUrl ELSE @,
        !.retryAttempts = IF update.retryAttempts # 0 THEN update.retryAttempts ELSE @]

\* C17: updateConfig(config) sets the client's settings from the fields the
\* configuration provides and keeps the others.
C17_UpdateConfigUpdatesSettings ==
    [][\A update \in SettingsUpdates :
          ClientUpdateConfig(update) => client' = SettingsAfter(client, update)]_allVars

\* C18: the PING the API sends when it is constructed reaches the extension,
\* whose answer connects the API: once connectToExtension has gone on from
\* its sendMessage call, the API is connected or its PING has been posted.
C18_PingReachesExtension ==
    apiInit # "awaitPing" =>
        (isConnected \/ \E i \in 1..Len(posted) : posted[i] = "PING")

\* C19: whenever isActive is false and no handler is running, the interval of
\* startMonitoring is not scheduled.
C19_NoIntervalWhenInactive ==
    (~swActive /\ \A h \in Requests : swReq[h] = "idle") => ~swInterval

\* Whether a configuration mentions the restrictions flag.
Mentions(update, flag) ==
    /\ "restrictions" \in DOMAIN update
    /\ flag \in DOMAIN update["restrictions"]

\* C20: UPDATE_CONFIG and ACTIVATE_MONITORING leave every setting their
\* configuration does not mention at its previous value.
C20_UnmentionedSettingsKept ==
    [][\A h \in Requests : \A action \in {"UPDATE_CONFIG", "ACTIVATE_MONITORING"} :
          \A update \in ConfigUpdates :
             HandleMessage(h, action, update) =>
                /\ "allowedUrls" \notin DOMAIN update =>
                      swConfig'["allowedUrls"] = swConfig["allowedUrls"]
                /\ \A flag \in DOMAIN swConfig["restrictions"] :
                      ~Mentions(update, flag) =>
                         /\ flag \in DOMAIN swConfig'["restrictions"]
                         /\ swConfig'["restrictions"][flag] = swConfig["restrictions"][flag]]_allVars

\* A tab that was created while monitoring was active with blockNewTabs set
\* and a url that is not allowed, and a tab handleTabCreated had to admit.
Blocked(t) ==
    tabSeen[t].created /\ tabSeen[t].active /\ tabSeen[t].block /\ ~tabSeen[t].allowed
Admitted(t) == tabSeen[t].created /\ tabSeen[t].active /\ ~Blocked(t)

\* C21: while monitoring is active with blockNewTabs set, every newly created
\* tab whose url is not allowed is closed (once its handler has run) and is
\* never in allowedTabs; allowedTabs holds only tabs that were admitted when
\* they were created and have not been removed since.
C21_BlockedTabsClosed ==
    /\ \A t \in Tabs :
          Blocked(t) =>
            /\ t \notin allowedTabs
            /\ tabReq[t] = "idle" => tabOpen[t] \in {"closing", "closed"}
    /\ \A t \in allowedTabs : Admitted(t) /\ tabOpen[t] = "open"

\* C22: an emergency stop, requested by EMERGENCY_STOP or part of the
\* background's handling of DEVELOPER_TOOLS_DETECTED, closes the tabs and
\* opens the violation page also when recording the event fails: the backend
\* is unreachable, or the storage write rejects.
C22_StopDespiteRecordingFailure ==
    [][/\ \A fail \in {"backend", "stop"} :
             BgEmergencyStop(fail) => emergencyStopped'
       /\ \A h \in Handlers : \A fail \in {"backend", "log", "stop"} :
             BgDeveloperToolsDetected(h, fail) => emergencyStopped']_allVars

\* C23: every result of detectVirtualMachine has isVirtual true exactly when
\* its confidence is 30 or more, also when a check threw part-way through.
C23_VirtualFromThirty ==
    vmResult # NoResult => (vmResult.isVirtual <=> vmResult.confidence >= 30)

\* C24: the confidence detectVirtualMachine returns lies between 0 and 100
\* for every combination of indicators.
C24_ConfidenceWithinHundred ==
    vmResult # NoResult => vmResult.confidence \in 0..100

\* C25: a restriction whose flag is off is not enforced: an event of the page
\* that belongs to it is neither prevented nor logged nor turned into a
\* violation; so it is for a right-click with blockRightClick off, also while
\* blockDevTools is on.
C25_OffMeansNotEnforced ==
    (lastEvent.event # "none" /\ ~lastEvent.flagOn) =>
        ~lastEvent.prevented /\ ~lastEvent.logged /\ ~lastEvent.violation

\* C26: after deactivate none of the listeners startEnforcement installed is
\* attached, and the events of the page are no longer prevented, logged or
\* turned into violations.
C26_NothingAttachedAfterDeactivate ==
    /\ (enfLoaded /\ ~enfActive) => \A k \in ListenerKeys : ~Attached(k)
    /\ (lastEvent.event # "none" /\ ~lastEvent.active) =>
          ~lastEvent.prevented /\ ~lastEvent.logged /\ ~lastEvent.violation

\* C27: after every sequence of init, activate, updateConfig and deactivate
\* that ends with deactivate, the page functions the enforcer replaces are
\* the page's original functions again.
C27_FunctionsRestoredAfterDeactivate ==
    (enfLoaded /\ ~enfActive) => \A f \in FunctionNames : pageFunctions[f] = Original

\* C28: isActive of KeyboardTracker and of PageMonitor is true only when
\* their listeners are attached; so it is after an init during which the
\* background reported isActive true.
C28_ActiveMeansListening ==
    /\ ktActive => ktListening
    /\ pmActive => pmInstalled > 0

\* C29: after stopMonitoring, and until startMonitoring is called again, no
\* interaction and no network request is added to pageData.
C29_NothingRecordedAfterStop ==
    [][(pmStopped /\ pmStopped') =>
          (pmInteractions' <= pmInteractions /\ pmRequests' <= pmRequests)]_allVars

\* C30: a STORE_KEYSTROKES batch is sent once per 50 recorded keystrokes
\* (BatchSize in the model) and never more often, also once the buffer is
\* full; the buffer never holds more than maxKeystrokes entries.
C30_OneBatchPerFifty ==
    /\ ktBatches = ktRecorded \div BatchSize
    /\ Len(keystrokes) <= MaxKeystrokes

\* C31: requestWithRetry issues at most retryAttempts fetches for a request;
\* it issues another fetch only after an error shouldRetry accepts, and only
\* after a delay started with retryDelay times the number of the attempt that
\* failed; a failure of the last attempt allowed rejects the request with
\* that failure's error.
C31_RetriesBounded ==
    [][LET failure == AfterFetch(lastOutcome').error IN
       /\ attempt' <= client'.retryAttempts
       /\ attempt' > attempt => (attempt' = attempt + 1 /\ (attempt > 0 => reqPc = "delaying"))
       /\ (reqPc = "fetching" /\ reqPc' = "delaying") =>
             /\ ~AfterFetch(lastOutcome').returns
             /\ ShouldRetry(failure)
             /\ reqDelay' = client.retryDelay * attempt
       /\ (reqPc = "fetching" /\ attempt = client.retryAttempts
               /\ ~AfterFetch(lastOutcome').returns) =>
             (reqPc' = "rejected" /\ reqError' = failure)]_allVars

\* A request was rejected with an error worth a retry, its attempts used up
\* after two delays.
C31_Witness ==
    /\ reqPc = "rejected"
    /\ attempt = client.retryAttempts
    /\ attempt = 3
    /\ client.retryDelay = 500
    /\ ShouldRetry(reqError)

\* C32: while isActive of the service worker is false no handler closes a
\* tab: chrome.tabs.remove is not called, also by a handleTabCreated that
\* started while monitoring was active and resumes after a deactivation.
C32_NoClosingWhileInactive ==
    [][\A t \in Tabs :
          (tabOpen[t] = "open" /\ tabOpen'[t] = "closing") => swActive]_allVars

\* The url begins with the entry, '*' standing for any run of characters and
\* every other character for itself.
RECURSIVE BeginsWithEntry(_, _, _, _)
BeginsWithEntry(entry, k, url, at) ==
    IF k > Len(entry) THEN TRUE
    ELSE IF entry[k] = Star
         THEN \E next \in at..(Len(url) + 1) : BeginsWithEntry(entry, k + 1, url, next)
         ELSE /\ at <= Len(url)
              /\ entry[k] = url[at]
              /\ BeginsWithEntry(entry, k + 1, url, at + 1)

\* C33: isUrlAllowed(url) returns true only if the url begins with one of the
\* allowed entries, '*' standing for any run of characters and every other
\* character matching literally; it returns false for an empty allow-list
\* and for an empty url.
C33_AllowedOnlyByPrefix ==
    urlResult # NotCalled =>
        /\ urlResult.allowed =>
              \E i \in 1..Len(urlList) : BeginsWithEntry(urlList[i], 1, urlArg, 1)
        /\ (urlArg = <<>> \/ urlList = <<>>) => ~urlResult.allowed

\* No call of logUnauthorizedAction is under way.
NoLogCallUnderWay == \A c \in LogCalls : logPc[c] \in {"none", "done", "threw"}

C35_AtMostOneInterval == swTimers <= 1

\* Two handlers have both gone through startMonitoring and one interval is
\* scheduled.
C35_Witness ==
    /\ swTimers = 1
    /\ \E g, h \in Requests :
          /\ g # h
          /\ swReq[g] = "activate:extensions"
          /\ swReq[h] = "activate:extensions"
          /\ swKind[g] = "START_SESSION"

C37_ResetRestoresDefault ==
    cmLast.call = "resetConfig" => LiveConfig(cmShared, cmOwn, cmDefault) = BuiltInConfig

\* C38: exportConfig removes backend.apiKey from the exported copy only: the
\* live configuration, backend.apiKey included, is after exportConfig what
\* it was before.
C38_ExportLeavesConfig ==
    cmLast.call = "exportConfig" =>
        /\ "apiKey" \notin DOMAIN cmExported["backend"]
        /\ LiveConfig(cmShared, cmOwn, cmDefault) = cmLast.before

====
